---- MODULE Spec2Model ----
(***************************************************************************)
(* OpenClaw broker: the jobs table, the claim / lease / requeue            *)
(* transaction of GET /jobs/next, the terminal POSTs and the capability    *)
(* matching, modelled from src/broker/app.py.                              *)
(*                                                                         *)
(* The store is SQLite: one committed table, at most one writer at a time  *)
(* (the RESERVED lock), readers see the committed table only.  Each HTTP   *)
(* handler runs in its own thread (a "proc"); a handler's steps are the    *)
(* store statements it executes, so that two handlers interleave exactly   *)
(* where the code lets them.                                               *)
(***************************************************************************)
EXTENDS Integers, Sequences, FiniteSets, TLC

(***************************************************************************)
(* Bounds of the model.                                                    *)
(***************************************************************************)
NumProcs == 2
MaxJobs == 2
MaxTime == 2
SeqMaxJobs == 3
FieldsMaxJobs == 1
AuthMaxJobs == 1
MaxSteps == 2
ConfiguredSteps == 1
MaxFileLines == 4
LinesBelow == 2
MaxLine == 5
MaxPathLen == 3
LateMaxJobs == 1
LateMaxTime == 3
SysMaxJobs == 2
SysMaxTime == 2
MaxToolCalls == 2

(***************************************************************************)
(* Program constants.  LEASE_SECONDS is the environment setting (default   *)
(* 60) and the SELECT's LIMIT is 50 in the source; both are scaled down so *)
(* that a lease can expire and a queue can exceed the limit within the     *)
(* bounds above.  RESULT_RETRY_ATTEMPTS is the worker's, as in the source. *)
(***************************************************************************)
LEASE_SECONDS == 1
RESULT_RETRY_ATTEMPTS == 3
SELECT_LIMIT == 2

(***************************************************************************)
(* Python None / SQL NULL: an optional value is the empty set or a         *)
(* singleton.                                                              *)
(***************************************************************************)
Null == {}
Some(v) == {v}
Get(x) == CHOOSE v \in x : TRUE

Procs == 1..NumProcs
NoProc == 0

(***************************************************************************)
(* Text.  The strings of the model are the literals below; the string      *)
(* operations the code applies to them are tabulated on these literals.    *)
(***************************************************************************)
\* str.strip()
Strip(s) ==
    CASE s = " " -> ""
      [] s = " A " -> "A"
      [] s = " llm" -> "llm"
      [] s = "repo " -> "repo"
      [] OTHER -> s

\* str.startswith("[")
StartsWithBracket(s) ==
    s \in {"[]", "[\"llm\"]", "[\"llm\",\"repo\"]", "[\"llm\"", "[\"\"]",
           "[null,\"llm\"]", "[\" \"]"}

\* str.split(",")
SplitComma(s) ==
    CASE s = "llm,repo" -> <<"llm", "repo">>
      [] s = " llm, ,repo " -> <<" llm", " ", "repo ">>
      [] s = "[\"llm\",\"repo\"]" -> <<"[\"llm\"", "\"repo\"]">>
      [] s = "[null,\"llm\"]" -> <<"[null", "\"llm\"]">>
      [] s = "{\"caps\":[\"llm\",\"repo\"]}" -> <<"{\"caps\":[\"llm\"", "\"repo\"]}">>
      [] OTHER -> <<s>>

(***************************************************************************)
(* json.loads on the literals of the model.  A JSON value is a record      *)
(* with its Python type in t; an array carries its items, an object        *)
(* carries what obj.get("caps") returns.  An item (and a caps value) is    *)
(* [none, truthy, str, iter]: whether it is None, its truth value, str(c)  *)
(* and, for a caps value, what iterating it yields ("TypeError" when the   *)
(* value is not iterable).                                                 *)
(***************************************************************************)
JItem(isNone, truthy, text) == [none |-> isNone, truthy |-> truthy, str |-> text]
JStrItem(s) == JItem(FALSE, s /= "", s)
JNoneItem == JItem(TRUE, FALSE, "None")

JDecodeError == [t |-> "JSONDecodeError"]
JList(items) == [t |-> "list", items |-> items]
JScalar(t) == [t |-> t]
\* caps: absent key or JSON null (get returns None), a list, or another value
CapsNone == [k |-> "None"]
CapsList(items) == [k |-> "list", truthy |-> items /= <<>>, items |-> items]
CapsInt(n) == [k |-> "int", truthy |-> n /= 0, items |-> <<>>]
CapsStr(chars) == [k |-> "str", truthy |-> chars /= <<>>, items |-> chars]
JDict(caps) == [t |-> "dict", caps |-> caps]

JsonLoads(s) ==
    CASE s = "{}" -> JDict(CapsNone)
      [] s = "{\"caps\":null}" -> JDict(CapsNone)
      [] s = "{\"caps\":[]}" -> JDict(CapsList(<<>>))
      [] s = "{\"caps\":[\"llm\"]}" -> JDict(CapsList(<<JStrItem("llm")>>))
      [] s = "{\"caps\":[\"llm\",\"repo\"]}" ->
             JDict(CapsList(<<JStrItem("llm"), JStrItem("repo")>>))
      [] s = "{\"caps\":[\"\"]}" -> JDict(CapsList(<<JStrItem("")>>))
      [] s = "{\"caps\":[null]}" -> JDict(CapsList(<<JNoneItem>>))
      [] s = "{\"caps\":5}" -> JDict(CapsInt(5))
      [] s = "{\"caps\":0}" -> JDict(CapsInt(0))
      [] s = "{\"caps\":\"ab\"}" -> JDict(CapsStr(<<JStrItem("a"), JStrItem("b")>>))
      [] s = "[]" -> JList(<<>>)
      [] s = "[\"llm\"]" -> JList(<<JStrItem("llm")>>)
      [] s = "[\"llm\",\"repo\"]" -> JList(<<JStrItem("llm"), JStrItem("repo")>>)
      [] s = "[\"\"]" -> JList(<<JStrItem("")>>)
      [] s = "[\" \"]" -> JList(<<JStrItem(" ")>>)
      [] s = "[null,\"llm\"]" -> JList(<<JNoneItem, JStrItem("llm")>>)
      [] s = "5" -> JScalar("int")
      [] s = "null" -> JScalar("NoneType")
      [] s = "\"llm\"" -> JScalar("str")
      [] OTHER -> JDecodeError

Range(seq) == {seq[i] : i \in DOMAIN seq}

(***************************************************************************)
(* Capability matching.                                                    *)
(***************************************************************************)
\* _parse_worker_caps: the X-Worker-Caps header (optional text) to a set
parse_worker_caps(header_value) ==
    IF header_value = Null \/ Get(header_value) = "" \/ Strip(Get(header_value)) = ""
    THEN {}
    ELSE LET h == Strip(Get(header_value))
             arr == JsonLoads(h)
         IN  IF StartsWithBracket(h) /\ arr.t = "list"
             THEN {Strip(c.str) : c \in {x \in Range(arr.items) : x.truthy}}
             ELSE {Strip(c) : c \in {x \in Range(SplitComma(h)) : Strip(x) /= ""}}

\* the three outcomes of _job_required_caps
ReqNone == [tag |-> "None", caps |-> {}]
ReqSet(S) == [tag |-> "set", caps |-> S]
ReqRaise == [tag |-> "AttributeError", caps |-> {}]

\* the caught exceptions of _job_required_caps: json.JSONDecodeError, TypeError
CaughtInRequiredCaps == {"JSONDecodeError", "TypeError"}

\* the exception obj.get("caps") raises on a JSON value that is no object
GetCapsRaises(obj) == IF obj.t = "dict" THEN "" ELSE "AttributeError"

\* _job_required_caps: the requires column (optional text) to None, a set
\* of capabilities, or the exception that leaves the function
job_required_caps(requires) ==
    IF requires = Null \/ Get(requires) = "" \/ Strip(Get(requires)) = ""
    THEN ReqNone
    ELSE LET obj == JsonLoads(Strip(Get(requires)))
         IN  IF obj.t = "JSONDecodeError"
             THEN IF "JSONDecodeError" \in CaughtInRequiredCaps THEN ReqNone ELSE ReqRaise
             ELSE IF GetCapsRaises(obj) /= ""
             THEN IF GetCapsRaises(obj) \in CaughtInRequiredCaps THEN ReqNone ELSE ReqRaise
             ELSE IF obj.caps.k = "None" THEN ReqNone
             ELSE IF ~obj.caps.truthy THEN ReqSet({})
             ELSE IF obj.caps.k = "int"
             THEN IF "TypeError" \in CaughtInRequiredCaps THEN ReqNone ELSE ReqRaise
             ELSE ReqSet({Strip(c.str) :
                            c \in {x \in Range(obj.caps.items) :
                                     ~x.none /\ Strip(x.str) /= ""}})

\* variant: any common capability is enough
CapsOverlap(required, worker_caps) == required \cap worker_caps /= {}

\* required <= worker_caps
CapsSubset(required, worker_caps) == required \subseteq worker_caps

\* _job_matches_worker: "True", "False", or "raise" when _job_required_caps raises
job_matches_worker(requires, worker_caps) ==
    LET required == job_required_caps(requires)
    IN  IF required.tag = "AttributeError" THEN "raise"
        ELSE IF required.tag = "None" \/ Cardinality(required.caps) = 0 THEN "True"
        ELSE IF CapsSubset(required.caps, worker_caps) THEN "True" ELSE "False"

(***************************************************************************)
(* The jobs table.  A row has the columns of the schema; the table is the  *)
(* sequence of rows in insertion order (the rowid), and a job's id, a      *)
(* fresh uuid in the code, is its rowid here.                              *)
(***************************************************************************)
VARIABLES
    clock,      \* time.time(), in seconds
    jobs,       \* the committed jobs table
    lock,       \* the proc holding the store's write lock, or NoProc
    txn,        \* per proc: its uncommitted copy of the table inside a transaction
    pc,         \* per proc: where its handler stands
    loc,        \* per proc: the handler's local variables
    resp,       \* per proc: the request's target and the HTTP response its handler returned
    probe,      \* an application of the capability matching to given texts
    env,        \* the secrets the process was started with: WORKER_TOKEN, BOT_TOKEN
    runner,     \* the worker process: its call of _post_with_retry
    worker,     \* the worker process: where main's loop stands, with the job it holds
    llm         \* the worker process: its call of run_llm_tool_loop

vars == <<clock, jobs, lock, txn, pc, loc, resp, probe, env, runner, worker, llm>>

\* create_job's INSERT: the row of a new job
NewRow(id, now, command, payload, requires) ==
    [id |-> id, created_at |-> now, status |-> "queued", command |-> command,
     payload |-> payload, result |-> Null, finished_at |-> Null, error |-> Null,
     started_at |-> Null, lease_until |-> Null, worker_id |-> Null,
     requires |-> requires]

\* variant: the requeue also takes a lease that ends at this very second
StaleRunningInclusive(row, now) ==
    /\ row.status = "running"
    /\ row.lease_until /= Null
    /\ Get(row.lease_until) <= now

\* the WHERE of the requeue UPDATE
StaleRunning(row, now) ==
    /\ row.status = "running"
    /\ row.lease_until /= Null
    /\ Get(row.lease_until) < now

\* variant: the requeue leaves the last claimant's worker_id on the row
RequeuedRowKeepsWorker(row) ==
    [row EXCEPT !.status = "queued", !.started_at = Null, !.lease_until = Null,
                !.finished_at = Null, !.result = Null, !.error = Null]

\* variant: a run whose lease has expired is given up as failed
ExpiredRowFails(row) ==
    [row EXCEPT !.status = "failed", !.error = Some("lease expired"),
                !.finished_at = row.lease_until, !.lease_until = Null]

\* the SET of the requeue UPDATE
RequeuedRow(row) ==
    [row EXCEPT !.status = "queued", !.started_at = Null, !.lease_until = Null,
                !.finished_at = Null, !.result = Null, !.error = Null,
                !.worker_id = Null]

\* next_job step 1: requeue stale running jobs
RequeueStale(tbl, now) ==
    [i \in DOMAIN tbl |-> IF StaleRunning(tbl[i], now) THEN RequeuedRow(tbl[i]) ELSE tbl[i]]

\* variant: ORDER BY created_at DESC
OrderedNewestFirst(tbl, i, k) ==
    \/ tbl[i].created_at > tbl[k].created_at
    \/ tbl[i].created_at = tbl[k].created_at /\ i <= k

\* ORDER BY created_at ASC; rows with equal created_at come in rowid order
\* (SQLite walks the index (status, created_at), whose ties are by rowid)
OrderedBefore(tbl, i, k) ==
    \/ tbl[i].created_at < tbl[k].created_at
    \/ tbl[i].created_at = tbl[k].created_at /\ i <= k

RECURSIVE SortedIds(_, _)
SortedIds(S, tbl) ==
    IF S = {} THEN <<>>
    ELSE LET m == CHOOSE i \in S : \A k \in S : OrderedBefore(tbl, i, k)
         IN  <<m>> \o SortedIds(S \ {m}, tbl)

\* variant: the SELECT returns one row less than the LIMIT
LimitOneShort(seq, n) == SubSeq(seq, 1, IF Len(seq) < n - 1 THEN Len(seq) ELSE n - 1)

\* LIMIT n
Limit(seq, n) == SubSeq(seq, 1, IF Len(seq) < n THEN Len(seq) ELSE n)

\* next_job step 2, the SELECT: the rowids of the oldest queued rows
SelectQueued(tbl) ==
    Limit(SortedIds({i \in DOMAIN tbl : tbl[i].status = "queued"}, tbl), SELECT_LIMIT)

\* next_job step 2, the loop: the first row that matches the worker's caps
RECURSIVE FirstMatch(_, _, _)
FirstMatch(rows, tbl, worker_caps) ==
    IF rows = <<>> THEN [kind |-> "none", id |-> 0]
    ELSE LET m == job_matches_worker(tbl[Head(rows)].requires, worker_caps)
         IN  IF m = "raise" THEN [kind |-> "raise", id |-> 0]
             ELSE IF m = "True" THEN [kind |-> "found", id |-> Head(rows)]
             ELSE FirstMatch(Tail(rows), tbl, worker_caps)

\* the WHERE of the claim UPDATE
ClaimGuard(row) == row.status = "queued"

\* variant: the claim UPDATE leaves worker_id as it was
ClaimedRowKeepsWorker(row, now, lease_until, worker_id) ==
    [row EXCEPT !.status = "running", !.started_at = Some(now),
                !.lease_until = Some(lease_until),
                !.error = Null, !.result = Null, !.finished_at = Null]

\* the SET of the claim UPDATE
ClaimedRow(row, now, lease_until, worker_id) ==
    [row EXCEPT !.status = "running", !.started_at = Some(now),
                !.lease_until = Some(lease_until), !.worker_id = worker_id,
                !.error = Null, !.result = Null, !.finished_at = Null]

\* the SET of finish_job's UPDATE
FinishedRow(row, result, now) ==
    [row EXCEPT !.status = "done", !.result = Some(result),
                !.finished_at = Some(now), !.lease_until = Null]

\* the SET of fail_job's UPDATE
FailedRow(row, err, now) ==
    [row EXCEPT !.status = "failed", !.error = Some(err),
                !.finished_at = Some(now), !.lease_until = Null]

\* variant: the posted error text is stored as it came
FailTextAsPosted(error) == error

\* fail_job: (body.error or "").strip() or "unknown"
FailText(error) == IF Strip(error) = "" THEN "unknown" ELSE Strip(error)

\* variant: the header is stored as it came
WorkerIdAsSent(x_worker_id) == x_worker_id

\* next_job: (x_worker_id or "").strip() or None
WorkerIdOf(x_worker_id) ==
    IF x_worker_id = Null \/ Strip(Get(x_worker_id)) = "" THEN Null
    ELSE Some(Strip(Get(x_worker_id)))

\* row_to_job_dict: the row with the standard keys
row_to_job_dict(row) ==
    [id |-> row.id, created_at |-> row.created_at, started_at |-> row.started_at,
     finished_at |-> row.finished_at, lease_until |-> row.lease_until,
     status |-> row.status, command |-> row.command, payload |-> row.payload,
     result |-> row.result, error |-> row.error, worker_id |-> row.worker_id,
     requires |-> row.requires]

(***************************************************************************)
(* Requests.  The values the clients send.                                 *)
(***************************************************************************)
Commands == {"ping"}
Payloads == {"x"}

(***************************************************************************)
(* Handlers.  pc[p] = "idle": proc p serves no request.  "done": its       *)
(* handler has returned resp[p].                                           *)
(***************************************************************************)
NoTxn == <<>>
NoLoc ==
    [now |-> 0, worker_id |-> Null, worker_caps |-> {}, job_id |-> 0, text |-> Null,
     command |-> "", payload |-> "", x_worker_id |-> Null, body |-> Null]
NoResp == [op |-> "", code |-> 0]
NoProbe == [requires |-> Null, header |-> Null]

\* the worker outside _post_with_retry
NoPost ==
    [pc |-> "idle", method |-> "", attempt |-> 0, seen |-> <<>>, slept |-> <<>>,
     ok |-> Null]

\* main at the top of its while loop, before the GET of /jobs/next
Polling == [pc |-> "poll", job |-> Null, outcome |-> Null, posts |-> <<>>, ok |-> Null]

\* safety: dict = {} of run_llm_tool_loop: a key is absent (Null) or has a value
NoSafety == [truncations |-> Null, max_steps_reached |-> Null, reason |-> Null]

\* the worker outside the llm_task branch of run_job
NoLoop ==
    [pc |-> "idle", payload |-> Null, config |-> Null, tools_requested |-> {},
     allowed |-> {}, schema |-> {}, max_steps |-> 0, step |-> 0, calls |-> 0,
     pending |-> <<>>, tool_calls_audit |-> <<>>, messages |-> <<>>, handlers |-> <<>>,
     safety |-> NoSafety, final |-> Null, exc |-> Null, content |-> Null,
     results |-> <<>>]

\* the process after import, started with the secrets e
Boot(e) ==
    /\ clock = 0
    /\ jobs = <<>>
    /\ lock = NoProc
    /\ txn = [p \in Procs |-> NoTxn]
    /\ pc = [p \in Procs |-> "idle"]
    /\ loc = [p \in Procs |-> NoLoc]
    /\ resp = [p \in Procs |-> NoResp]
    /\ probe = NoProbe
    /\ env = e
    /\ runner = NoPost
    /\ worker = Polling
    /\ llm = NoLoop

\* both secrets configured
ConfiguredEnv == [WORKER_TOKEN |-> "wt", BOT_TOKEN |-> "bt"]

Init == Boot(ConfiguredEnv)

\* the outcome of an auth dependency: the status code of the HTTPException
\* it raised, or Passed (no status code) when it returned
Passed == 0
HTTPException(code) == code

\* variant: the presented token is compared before the secret is looked at
require_token_compares_first(configured, presented) ==
    IF presented = Null \/ Get(presented) = "" \/ Get(presented) /= configured
    THEN HTTPException(401)
    ELSE IF configured = "" THEN HTTPException(500)
    ELSE Passed

\* the body shared by require_worker_token and require_bot_token
require_token(configured, presented) ==
    IF configured = "" THEN HTTPException(500)
    ELSE IF presented = Null \/ Get(presented) = "" \/ Get(presented) /= configured
    THEN HTTPException(401)
    ELSE Passed

require_worker_token(x_worker_token) == require_token(env.WORKER_TOKEN, x_worker_token)

require_bot_token(x_bot_token) == require_token(env.BOT_TOKEN, x_bot_token)

\* the handler of p returns r: a transaction still open has been ended
Returns(p, r) ==
    /\ pc' = [pc EXCEPT ![p] = "done"]
    /\ resp' = [resp EXCEPT ![p] = r]
    /\ loc' = [loc EXCEPT ![p] = NoLoc]

\* the client has read the response
Return(p) ==
    /\ pc[p] = "done"
    /\ pc' = [pc EXCEPT ![p] = "idle"]
    /\ resp' = [resp EXCEPT ![p] = NoResp]
    /\ UNCHANGED <<clock, jobs, lock, txn, loc>>
    /\ UNCHANGED <<probe, env, runner, worker, llm>>

\* time passes
Tick(maxTime) ==
    /\ clock < maxTime
    /\ clock' = clock + 1
    /\ UNCHANGED <<jobs, lock, txn, pc, loc, resp>>
    /\ UNCHANGED <<probe, env, runner, worker, llm>>

\* variant: a plain BEGIN: the transaction starts without the write lock
WriteLockNotTaken(p) == TRUE

\* a statement that writes needs the store's write lock: it waits while
\* another connection holds it
WriteLockFree(p) == lock = NoProc

\* COMMIT of p's transaction
Commit(p) ==
    /\ jobs' = txn[p]
    /\ lock' = IF lock = p THEN NoProc ELSE lock
    /\ txn' = [txn EXCEPT ![p] = NoTxn]

\* ROLLBACK of p's transaction: an exception leaves the with block
Rollback(p) ==
    /\ jobs' = jobs
    /\ lock' = IF lock = p THEN NoProc ELSE lock
    /\ txn' = [txn EXCEPT ![p] = NoTxn]

(***************************  POST /jobs  **********************************)
\* create_job, up to the INSERT: now = int(time.time())
CreateJob(p, command, payload, requires) ==
    /\ pc[p] = "idle"
    /\ pc' = [pc EXCEPT ![p] = "create_insert"]
    /\ loc' = [loc EXCEPT ![p] = [NoLoc EXCEPT !.now = clock, !.text = requires,
                                               !.command = command, !.payload = payload]]
    /\ UNCHANGED <<clock, jobs, lock, txn, resp>>
    /\ UNCHANGED <<probe, env, runner, worker, llm>>

\* create_job: the INSERT, committed on leaving the with block
CreateInsert(p, maxJobs) ==
    /\ pc[p] = "create_insert"
    /\ WriteLockFree(p)
    /\ Len(jobs) < maxJobs
    /\ jobs' = Append(jobs, NewRow(Len(jobs) + 1, loc[p].now, loc[p].command,
                                   loc[p].payload, loc[p].text))
    /\ Returns(p, [op |-> "create", code |-> 200, id |-> Len(jobs) + 1, status |-> "queued"])
    /\ UNCHANGED <<clock, lock, txn>>
    /\ UNCHANGED <<probe, env, runner, worker, llm>>

(***************************  GET /jobs/{id}  ******************************)
get_job(p, job_id) ==
    /\ pc[p] = "idle"
    /\ IF job_id \in DOMAIN jobs
       THEN Returns(p, [op |-> "get", id |-> job_id, code |-> 200,
                        job |-> Some(row_to_job_dict(jobs[job_id]))])
       ELSE Returns(p, [op |-> "get", id |-> job_id, code |-> 404])
    /\ UNCHANGED <<clock, jobs, lock, txn>>
    /\ UNCHANGED <<probe, env, runner, worker, llm>>

(***************************  GET /jobs/next  ******************************)
\* next_job, up to the with block: now, lease_until, worker_id, worker_caps
NextJob(p, x_worker_id, x_worker_caps) ==
    /\ pc[p] = "idle"
    /\ pc' = [pc EXCEPT ![p] = "next_begin"]
    /\ loc' = [loc EXCEPT ![p] = [NoLoc EXCEPT !.now = clock,
                                               !.x_worker_id = x_worker_id,
                                               !.worker_id = WorkerIdOf(x_worker_id),
                                               !.worker_caps = parse_worker_caps(x_worker_caps)]]
    /\ UNCHANGED <<clock, jobs, lock, txn, resp>>
    /\ UNCHANGED <<probe, env, runner, worker, llm>>

\* BEGIN IMMEDIATE: take the write lock; the transaction works on the committed table
NextBegin(p) ==
    /\ pc[p] = "next_begin"
    /\ WriteLockFree(p)
    /\ lock' = p
    /\ txn' = [txn EXCEPT ![p] = jobs]
    /\ pc' = [pc EXCEPT ![p] = "next_requeue"]
    /\ UNCHANGED <<clock, jobs, loc, resp>>
    /\ UNCHANGED <<probe, env, runner, worker, llm>>

\* 1) the requeue UPDATE
NextRequeue(p) ==
    /\ pc[p] = "next_requeue"
    /\ txn' = [txn EXCEPT ![p] = RequeueStale(txn[p], loc[p].now)]
    /\ pc' = [pc EXCEPT ![p] = "next_select"]
    /\ UNCHANGED <<clock, jobs, lock, loc, resp>>
    /\ UNCHANGED <<probe, env, runner, worker, llm>>

\* 2) the SELECT and the loop over its rows; without a job: COMMIT and
\* {job: null}; an exception of the matching leaves the with block
\* (rollback) and the request ends in a 500
NextSelect(p) ==
    /\ pc[p] = "next_select"
    /\ LET pick == FirstMatch(SelectQueued(txn[p]), txn[p], loc[p].worker_caps)
       IN  IF pick.kind = "found"
           THEN /\ pc' = [pc EXCEPT ![p] = "next_claim"]
                /\ loc' = [loc EXCEPT ![p].job_id = pick.id]
                /\ UNCHANGED <<jobs, lock, txn, resp>>
           ELSE IF pick.kind = "none"
           THEN /\ Commit(p)
                /\ Returns(p, [op |-> "next", code |-> 200, job |-> Null])
           ELSE /\ Rollback(p)
                /\ Returns(p, [op |-> "next", code |-> 500])
    /\ UNCHANGED clock
    /\ UNCHANGED <<probe, env, runner, worker, llm>>

\* 3) the guarded claim UPDATE; rowcount /= 1: COMMIT and {job: null}
NextClaim(p) ==
    /\ pc[p] = "next_claim"
    /\ LET j == loc[p].job_id
       IN  IF j \in DOMAIN txn[p] /\ ClaimGuard(txn[p][j])
           THEN /\ txn' = [txn EXCEPT ![p][j] =
                             ClaimedRow(txn[p][j], loc[p].now, loc[p].now + LEASE_SECONDS,
                                        loc[p].worker_id)]
                /\ pc' = [pc EXCEPT ![p] = "next_commit"]
                /\ UNCHANGED <<jobs, lock, loc, resp>>
           ELSE /\ Commit(p)
                /\ Returns(p, [op |-> "next", code |-> 200, job |-> Null])
    /\ UNCHANGED clock
    /\ UNCHANGED <<probe, env, runner, worker, llm>>

\* the re-fetch of the claimed row, COMMIT, and {job: <row>}
NextCommit(p) ==
    /\ pc[p] = "next_commit"
    /\ Commit(p)
    /\ Returns(p, [op |-> "next", code |-> 200,
                   job |-> Some(row_to_job_dict(txn[p][loc[p].job_id]))])
    /\ UNCHANGED clock
    /\ UNCHANGED <<probe, env, runner, worker, llm>>

(***************************  POST /jobs/{id}/result  *********************)
\* variant: finish_job without the early return for a job that is done
finish_job_rewrites_done(p, x_worker_id, job_id, result) ==
    /\ pc[p] = "idle"
    /\ IF job_id \notin DOMAIN jobs
       THEN Returns(p, [op |-> "result", id |-> job_id, code |-> 404])
       ELSE IF jobs[job_id].status = "failed"
       THEN Returns(p, [op |-> "result", id |-> job_id, code |-> 200, status |-> "failed",
                        note |-> "already failed; result ignored"])
       ELSE IF jobs[job_id].status = "queued"
       THEN Returns(p, [op |-> "result", id |-> job_id, code |-> 400])
       ELSE /\ pc' = [pc EXCEPT ![p] = "finish_now"]
            /\ loc' = [loc EXCEPT ![p] = [NoLoc EXCEPT !.job_id = job_id, !.text = Some(result),
                                                    !.body = Some(result),
                                                    !.x_worker_id = x_worker_id]]
            /\ UNCHANGED resp
    /\ UNCHANGED <<clock, jobs, lock, txn>>
    /\ UNCHANGED <<probe, env, runner, worker, llm>>

\* finish_job: the SELECT of the status and the answers that need no write
finish_job(p, x_worker_id, job_id, result) ==
    /\ pc[p] = "idle"
    /\ IF job_id \notin DOMAIN jobs
       THEN Returns(p, [op |-> "result", id |-> job_id, code |-> 404])
       ELSE IF jobs[job_id].status = "done"
       THEN Returns(p, [op |-> "result", id |-> job_id, code |-> 200, status |-> "done", note |-> ""])
       ELSE IF jobs[job_id].status = "failed"
       THEN Returns(p, [op |-> "result", id |-> job_id, code |-> 200, status |-> "failed",
                        note |-> "already failed; result ignored"])
       ELSE IF jobs[job_id].status = "queued"
       THEN Returns(p, [op |-> "result", id |-> job_id, code |-> 400])
       ELSE /\ pc' = [pc EXCEPT ![p] = "finish_now"]
            /\ loc' = [loc EXCEPT ![p] = [NoLoc EXCEPT !.job_id = job_id, !.text = Some(result),
                                                    !.body = Some(result),
                                                    !.x_worker_id = x_worker_id]]
            /\ UNCHANGED resp
    /\ UNCHANGED <<clock, jobs, lock, txn>>
    /\ UNCHANGED <<probe, env, runner, worker, llm>>

\* finish_job: now = int(time.time())
FinishNow(p) ==
    /\ pc[p] = "finish_now"
    /\ loc' = [loc EXCEPT ![p].now = clock]
    /\ pc' = [pc EXCEPT ![p] = "finish_update"]
    /\ UNCHANGED <<clock, jobs, lock, txn, resp>>
    /\ UNCHANGED <<probe, env, runner, worker, llm>>

\* variant: finish_job's UPDATE also clears worker_id
FinishWriteClearsWorker(row, result, now) ==
    [FinishedRow(row, result, now) EXCEPT !.worker_id = Null]

\* the row finish_job's UPDATE ... WHERE id=? writes
FinishWrite(row, result, now) == FinishedRow(row, result, now)

\* finish_job: the UPDATE, committed on leaving the with block
FinishUpdate(p) ==
    /\ pc[p] = "finish_update"
    /\ WriteLockFree(p)
    /\ jobs' = [jobs EXCEPT ![loc[p].job_id] = FinishWrite(@, Get(loc[p].text), loc[p].now)]
    /\ Returns(p, [op |-> "result", id |-> loc[p].job_id, code |-> 200, status |-> "done",
                   note |-> ""])
    /\ UNCHANGED <<clock, lock, txn>>
    /\ UNCHANGED <<probe, env, runner, worker, llm>>

(***************************  POST /jobs/{id}/fail  ***********************)
\* variant: fail_job without the early return for a job that has failed
fail_job_rewrites_failed(p, x_worker_id, job_id, error) ==
    /\ pc[p] = "idle"
    /\ IF job_id \notin DOMAIN jobs
       THEN Returns(p, [op |-> "fail", id |-> job_id, code |-> 404])
       ELSE IF jobs[job_id].status = "done"
       THEN Returns(p, [op |-> "fail", id |-> job_id, code |-> 200, status |-> "done",
                        note |-> "already done; fail ignored"])
       ELSE /\ pc' = [pc EXCEPT ![p] = "fail_now"]
            /\ loc' = [loc EXCEPT ![p] = [NoLoc EXCEPT !.job_id = job_id, !.text = Some(error),
                                                    !.body = Some(error),
                                                    !.x_worker_id = x_worker_id]]
            /\ UNCHANGED resp
    /\ UNCHANGED <<clock, jobs, lock, txn>>
    /\ UNCHANGED <<probe, env, runner, worker, llm>>

\* fail_job: the SELECT of the status and the answers that need no write
fail_job(p, x_worker_id, job_id, error) ==
    /\ pc[p] = "idle"
    /\ IF job_id \notin DOMAIN jobs
       THEN Returns(p, [op |-> "fail", id |-> job_id, code |-> 404])
       ELSE IF jobs[job_id].status = "done"
       THEN Returns(p, [op |-> "fail", id |-> job_id, code |-> 200, status |-> "done",
                        note |-> "already done; fail ignored"])
       ELSE IF jobs[job_id].status = "failed"
       THEN Returns(p, [op |-> "fail", id |-> job_id, code |-> 200, status |-> "failed", note |-> ""])
       ELSE /\ pc' = [pc EXCEPT ![p] = "fail_now"]
            /\ loc' = [loc EXCEPT ![p] = [NoLoc EXCEPT !.job_id = job_id, !.text = Some(error),
                                                    !.body = Some(error),
                                                    !.x_worker_id = x_worker_id]]
            /\ UNCHANGED resp
    /\ UNCHANGED <<clock, jobs, lock, txn>>
    /\ UNCHANGED <<probe, env, runner, worker, llm>>

\* fail_job: err = ... or "unknown"; now = int(time.time())
FailNow(p) ==
    /\ pc[p] = "fail_now"
    /\ loc' = [loc EXCEPT ![p].now = clock, ![p].text = Some(FailText(Get(loc[p].text)))]
    /\ pc' = [pc EXCEPT ![p] = "fail_update"]
    /\ UNCHANGED <<clock, jobs, lock, txn, resp>>
    /\ UNCHANGED <<probe, env, runner, worker, llm>>

\* variant: a failed run is put back in the queue for another try
FailWriteRequeues(row, err, now) == RequeuedRow(row)

\* the row fail_job's UPDATE ... WHERE id=? writes
FailWrite(row, err, now) == FailedRow(row, err, now)

\* fail_job: the UPDATE, committed on leaving the with block
FailUpdate(p) ==
    /\ pc[p] = "fail_update"
    /\ WriteLockFree(p)
    /\ jobs' = [jobs EXCEPT ![loc[p].job_id] = FailWrite(@, Get(loc[p].text), loc[p].now)]
    /\ Returns(p, [op |-> "fail", id |-> loc[p].job_id, code |-> 200, status |-> "failed",
                   note |-> ""])
    /\ UNCHANGED <<clock, lock, txn>>
    /\ UNCHANGED <<probe, env, runner, worker, llm>>

(***************************  Depends(require_..._token)  *****************)
\* the dependency raised: the handler is not entered, the request is answered
\* with the exception's status code
Rejects(p, op, presented, code) ==
    /\ pc[p] = "idle"
    /\ Returns(p, [op |-> op, code |-> code, presented |-> presented])
    /\ UNCHANGED <<clock, jobs, lock, txn>>
    /\ UNCHANGED <<probe, env, runner, worker, llm>>

\* the routes: the auth dependency, then the handler
route_create_job(p, x_bot_token, command, payload, requires) ==
    IF require_bot_token(x_bot_token) = Passed
    THEN CreateJob(p, command, payload, requires)
    ELSE Rejects(p, "create", x_bot_token, require_bot_token(x_bot_token))

route_get_job(p, x_bot_token, job_id) ==
    IF require_bot_token(x_bot_token) = Passed
    THEN get_job(p, job_id)
    ELSE Rejects(p, "get", x_bot_token, require_bot_token(x_bot_token))

route_next_job(p, x_worker_token, x_worker_id, x_worker_caps) ==
    IF require_worker_token(x_worker_token) = Passed
    THEN NextJob(p, x_worker_id, x_worker_caps)
    ELSE Rejects(p, "next", x_worker_token, require_worker_token(x_worker_token))

route_finish_job(p, x_worker_token, x_worker_id, job_id, result) ==
    IF require_worker_token(x_worker_token) = Passed
    THEN finish_job(p, x_worker_id, job_id, result)
    ELSE Rejects(p, "result", x_worker_token, require_worker_token(x_worker_token))

route_fail_job(p, x_worker_token, x_worker_id, job_id, error) ==
    IF require_worker_token(x_worker_token) = Passed
    THEN fail_job(p, x_worker_id, job_id, error)
    ELSE Rejects(p, "fail", x_worker_token, require_worker_token(x_worker_token))

(***************************************************************************)
(* The broker: every handler thread of c.procs may serve any request, with *)
(* the request values of c.  A specification fixes c: how many threads     *)
(* serve concurrently, how many jobs are created, how far the clock runs.  *)
(* c.senders are the X-Worker-Id headers of the result and fail requests:  *)
(* the runner sends the header with every request, these two handlers do   *)
(* not read it.                                                            *)
(***************************************************************************)
NextOf(c) ==
    \/ Tick(c.maxTime)
    \/ \E p \in c.procs :
         \/ \E t \in c.botTokens, m \in Commands, y \in Payloads, r \in c.requires :
               route_create_job(p, t, m, y, r)
         \/ CreateInsert(p, c.maxJobs)
         \/ \E t \in c.botTokens, j \in 1..c.maxJobs : route_get_job(p, t, j)
         \/ \E t \in c.workerTokens, w \in c.workerIds, h \in c.workerCaps :
               route_next_job(p, t, w, h)
         \/ NextBegin(p)
         \/ NextRequeue(p)
         \/ NextSelect(p)
         \/ NextClaim(p)
         \/ NextCommit(p)
         \/ \E t \in c.workerTokens, w \in c.senders, j \in 1..c.maxJobs, r \in c.results :
               route_finish_job(p, t, w, j, r)
         \/ FinishNow(p)
         \/ FinishUpdate(p)
         \/ \E t \in c.workerTokens, w \in c.senders, j \in 1..c.maxJobs, e \in c.errors :
               route_fail_job(p, t, w, j, e)
         \/ FailNow(p)
         \/ FailUpdate(p)
         \/ Return(p)

(***************************************************************************)
(* Spec: two handler threads serve concurrently; jobs carry no requires    *)
(* and every worker offers no capability.                                  *)
(***************************************************************************)
CfgConc ==
    [procs |-> Procs, maxJobs |-> MaxJobs, maxTime |-> MaxTime,
     requires |-> {Null},
     workerIds |-> {Some("A")},
     senders |-> {Some("A")},
     workerCaps |-> {Null},
     results |-> {"ok"},
     errors |-> {"err"},
     botTokens |-> {Some("bt")},
     workerTokens |-> {Some("wt")}]

Spec == Init /\ [][NextOf(CfgConc)]_vars

(***************************************************************************)
(* SpecSeq: one handler thread serves the requests one after the other;    *)
(* jobs with and without requires, workers with and without capabilities,  *)
(* and a queue longer than the SELECT's LIMIT.                             *)
(***************************************************************************)
CfgSeq ==
    [procs |-> {1}, maxJobs |-> SeqMaxJobs, maxTime |-> MaxTime,
     requires |-> {Null, Some("{\"caps\":[\"llm\",\"repo\"]}"), Some("[\"llm\"]")},
     workerIds |-> {Some("A")},
     senders |-> {Some("A")},
     workerCaps |-> {Null, Some("[\"llm\"]"), Some("llm,repo")},
     results |-> {"ok"},
     errors |-> {"err"},
     botTokens |-> {Some("bt")},
     workerTokens |-> {Some("wt")}]

SpecSeq == Init /\ [][NextOf(CfgSeq)]_vars

(***************************************************************************)
(* SpecFields: two handler threads serve concurrently around one job;      *)
(* workers with and without an X-Worker-Id, empty and non-empty results,   *)
(* empty, blank and differing error texts.                                 *)
(***************************************************************************)
CfgFields ==
    [procs |-> Procs, maxJobs |-> FieldsMaxJobs, maxTime |-> MaxTime,
     requires |-> {Null},
     workerIds |-> {Null, Some(""), Some("A"), Some("B")},
     senders |-> {Some("A")},
     workerCaps |-> {Null},
     results |-> {"", "ok"},
     errors |-> {"", " ", "err", "other"},
     botTokens |-> {Some("bt")},
     workerTokens |-> {Some("wt")}]

SpecFields == Init /\ [][NextOf(CfgFields)]_vars

(***************************************************************************)
(* SpecLate: one handler thread, one job, the workers A and B: each of     *)
(* them polls, and posts a result or a failure, at any time.               *)
(***************************************************************************)
CfgLate ==
    [procs |-> {1}, maxJobs |-> LateMaxJobs, maxTime |-> LateMaxTime,
     requires |-> {Null},
     workerIds |-> {Some("A"), Some("B")},
     senders |-> {Some("A"), Some("B")},
     workerCaps |-> {Null},
     results |-> {"ok"},
     errors |-> {"err"},
     botTokens |-> {Some("bt")},
     workerTokens |-> {Some("wt")}]

SpecLate == Init /\ [][NextOf(CfgLate)]_vars

(***************************************************************************)
(* SpecAuth: the process started with any combination of configured and    *)
(* empty secrets; requests without a token, with an empty token, with the  *)
(* worker's token and with the bot's token.                                *)
(***************************************************************************)
Envs == [WORKER_TOKEN : {"", "wt"}, BOT_TOKEN : {"", "bt"}]

PresentedTokens == {Null, Some(""), Some("wt"), Some("bt")}

CfgAuth ==
    [procs |-> {1}, maxJobs |-> AuthMaxJobs, maxTime |-> MaxTime,
     requires |-> {Null},
     workerIds |-> {Some("A")},
     senders |-> {Some("A")},
     workerCaps |-> {Null},
     results |-> {"ok"},
     errors |-> {"err"},
     botTokens |-> PresentedTokens,
     workerTokens |-> PresentedTokens]

InitAuth == \E e \in Envs : Boot(e)

SpecAuth == InitAuth /\ [][NextOf(CfgAuth)]_vars

(***************************************************************************)
(* The worker's terminal POST, src/runner/runner.py.  Durations are in     *)
(* tenths of a second.  What requests.post gives is a response with a      *)
(* status code or a RequestException (no connection, timeout).             *)
(***************************************************************************)
RESULT_RETRY_BACKOFF == <<5, 10, 20>>

Response(status) == [exc |-> FALSE, status |-> status]
RequestException == [exc |-> TRUE, status |-> 0]

PostOutcomes ==
    {Response(200), Response(304), Response(400), Response(401), Response(404),
     Response(422), Response(500), Response(503), RequestException}

\* r.status_code == 200
IsSuccess(r) == ~r.exc /\ r.status = 200

\* variant: a 4xx is not told apart from a 5xx
IsClientErrorNever(r) == FALSE

\* 400 <= r.status_code < 500
IsClientError(r) == ~r.exc /\ 400 <= r.status /\ r.status < 500

\* _post_with_retry is called: for attempt in range(RESULT_RETRY_ATTEMPTS)
PostWithRetry(method) ==
    /\ runner.pc = "idle"
    /\ runner' = [NoPost EXCEPT !.pc = "post", !.method = method]
    /\ UNCHANGED <<clock, jobs, lock, txn, pc, loc, resp, probe, env, llm>>

\* one pass of the loop body up to the sleep: requests.post gives r
PostAttempt(r) ==
    /\ runner.pc = "post"
    /\ LET seen == Append(runner.seen, r)
       IN  IF IsSuccess(r)
           THEN runner' = [runner EXCEPT !.pc = "returned", !.seen = seen, !.ok = Some(TRUE)]
           ELSE IF IsClientError(r)
           THEN runner' = [runner EXCEPT !.pc = "returned", !.seen = seen, !.ok = Some(FALSE)]
           ELSE IF runner.attempt < RESULT_RETRY_ATTEMPTS - 1
           THEN runner' = [runner EXCEPT !.pc = "sleep", !.seen = seen]
           ELSE runner' = [runner EXCEPT !.pc = "returned", !.seen = seen, !.ok = Some(FALSE)]
    /\ UNCHANGED <<clock, jobs, lock, txn, pc, loc, resp, probe, env, worker, llm>>

\* time.sleep(RESULT_RETRY_BACKOFF[attempt]), then the next pass
PostSleep ==
    /\ runner.pc = "sleep"
    /\ runner' = [runner EXCEPT !.pc = "post",
                                !.slept = Append(@, RESULT_RETRY_BACKOFF[runner.attempt + 1]),
                                !.attempt = @ + 1]
    /\ UNCHANGED <<clock, jobs, lock, txn, pc, loc, resp, probe, env, worker, llm>>

\* main goes on after the call
PostReturned ==
    /\ runner.pc = "returned"
    /\ runner' = NoPost
    /\ UNCHANGED <<clock, jobs, lock, txn, pc, loc, resp, probe, env, llm>>

NextRetry ==
    \/ \E m \in {"result", "fail"} : PostWithRetry(m) /\ UNCHANGED worker
    \/ \E r \in PostOutcomes : PostAttempt(r)
    \/ PostSleep
    \/ PostReturned /\ UNCHANGED worker

(***************************************************************************)
(* SpecRetry: the worker's terminal POST against a broker and a network    *)
(* that answer anything.  requests.post is called with a timeout and       *)
(* time.sleep returns, so no step of the call waits forever.               *)
(***************************************************************************)
SpecRetry == Init /\ [][NextRetry]_vars /\ WF_vars(NextRetry)

(***************************************************************************)
(* The worker's main loop (src/runner/runner.py, main and run_job).  The   *)
(* broker is whatever answers the GET of /jobs/next; a handler's outcome   *)
(* is the string it returns or the exception it raises, given by its text. *)
(***************************************************************************)
Returned(text) == [raised |-> FALSE, text |-> text]
Raised(text) == [raised |-> TRUE, text |-> text]

WorkerCommands == {"ping", "approve_echo", "repo_status", "nope"}
WorkerPayloads == {"", " ", "x"}

\* the jobs a 200 of /jobs/next can carry, and its other answers
PolledJobs == [id : {1, 2}, command : WorkerCommands, payload : WorkerPayloads]
NoJob == [id |-> 0, command |-> "", payload |-> ""]
PollError == [id |-> -1, command |-> "", payload |-> ""]
PollAnswers == PolledJobs \cup {NoJob, PollError}

\* what a handler that works on the plans directory or on a repository can do
HandlerOutcomes == {Returned("out"), Raised("boom"), Raised(""), Raised(" ")}

\* f"pong: {payload}"
Pong(payload) ==
    CASE payload = "" -> "pong: "
      [] payload = " " -> "pong:  "
      [] OTHER -> "pong: x"

\* f"unknown command: {command}"
UnknownCommand(command) == "unknown command: nope"

\* variant: a command run_job does not know raises
run_job_unknown_raises(command, payload) ==
    CASE command = "ping" -> {Returned(Pong(payload))}
      [] command = "approve_echo" ->
            IF Strip(payload) = "" THEN {Raised("plan_id required")} ELSE HandlerOutcomes
      [] command = "repo_status" ->
            IF payload = "" THEN {Raised("repo required")}
            ELSE IF payload = " " THEN {Raised("payload must be valid JSON")}
            ELSE HandlerOutcomes
      [] OTHER -> {Raised(UnknownCommand(command))}

\* run_job(command, payload): the outcomes the call can have
run_job(command, payload) ==
    CASE command = "ping" -> {Returned(Pong(payload))}
      [] command = "approve_echo" ->
            IF Strip(payload) = "" THEN {Raised("plan_id required")} ELSE HandlerOutcomes
      [] command = "repo_status" ->
            IF payload = "" THEN {Raised("repo required")}
            ELSE IF payload = " " THEN {Raised("payload must be valid JSON")}
            ELSE HandlerOutcomes
      [] OTHER -> {Returned(UnknownCommand(command))}

\* variant: an empty exception text is posted as it is
ErrMsgAsRaised(text) == text

\* err_msg = str(e) or "unknown"
ErrMsg(text) == IF text = "" THEN "unknown" ELSE text

\* the GET of /jobs/next and what main does with the answer
MainPoll(answer) ==
    /\ worker.pc = "poll"
    /\ worker' = IF answer \in PolledJobs
                 THEN [pc |-> "run", job |-> Some(answer), outcome |-> Null, posts |-> <<>>,
                       ok |-> Null]
                 ELSE [worker EXCEPT !.pc = "sleep"]
    /\ UNCHANGED <<clock, jobs, lock, txn, pc, loc, resp, probe, env, runner, llm>>

\* time.sleep(POLL_INTERVAL_SEC), then the next pass of the while loop
MainSleep ==
    /\ worker.pc = "sleep"
    /\ worker' = [worker EXCEPT !.pc = "poll"]
    /\ UNCHANGED <<clock, jobs, lock, txn, pc, loc, resp, probe, env, runner, llm>>

\* result = run_job(command, payload), returning or raising into the except branch
MainRunJob(o) ==
    /\ worker.pc = "run"
    /\ o \in run_job(Get(worker.job).command, Get(worker.job).payload)
    /\ worker' = [worker EXCEPT !.pc = "call", !.outcome = Some(o)]
    /\ UNCHANGED <<clock, jobs, lock, txn, pc, loc, resp, probe, env, runner, llm>>

\* the call of _post_with_retry in the try block or in the except branch
MainPost ==
    /\ worker.pc = "call"
    /\ LET o == Get(worker.outcome)
           method == IF o.raised THEN "fail" ELSE "result"
           body == IF o.raised THEN ErrMsg(o.text) ELSE o.text
       IN  /\ PostWithRetry(method)
           /\ worker' = [worker EXCEPT !.pc = "posting",
                                       !.posts = Append(@, [method |-> method,
                                                            id |-> Get(worker.job).id,
                                                            body |-> body])]

\* _post_with_retry has returned: ok is printed or not, and the loop goes round
MainResume ==
    /\ worker.pc = "posting"
    /\ PostReturned
    /\ worker' = [worker EXCEPT !.pc = "poll", !.ok = runner.ok]

NextWorker ==
    \/ \E a \in PollAnswers : MainPoll(a)
    \/ MainSleep
    \/ \E o \in HandlerOutcomes \cup {Raised("plan_id required"), Raised("repo required"),
                                     Raised("payload must be valid JSON"),
                                     Returned("unknown command: nope")}
                \cup {Returned(Pong(x)) : x \in WorkerPayloads} : MainRunJob(o)
    \/ MainPost
    \/ \E r \in PostOutcomes : PostAttempt(r)
    \/ PostSleep
    \/ MainResume

(***************************************************************************)
(* SpecWorker: main against a broker and a network that answer anything.   *)
(* Every request has a timeout, every sleep returns, and a handler         *)
(* returns or raises, so no step of the loop waits forever.                *)
(***************************************************************************)
SpecWorker == Init /\ [][NextWorker]_vars /\ WF_vars(NextWorker)

(***************************************************************************)
(* The llm_task handler (src/runner/runner.py run_job, llm_loop.py,        *)
(* tool_registry.py, llm_config.py, llm_client.py).  The model is          *)
(* whatever chat_with_tools answers; a tool's handler returns a string or  *)
(* raises.  Lists of tool names are kept as the set of their members: the  *)
(* code only tests membership in them.                                     *)
(***************************************************************************)
TOOL_OUTPUT_MAX_BYTES == 8000

\* the names of TOOL_DEFINITIONS
RegistryTools ==
    {"repo_list", "repo_status", "repo_last_commit", "repo_grep", "repo_readfile",
     "plan_echo", "approve_echo"}

\* variant: every allowed name gets a schema entry
get_tools_schema_unfiltered(allowed_tools) == allowed_tools

\* get_tools_schema(allowed_tools), by the names of the definitions it returns
get_tools_schema(allowed_tools) == {d \in RegistryTools : d \in allowed_tools}

\* get_llm_config(): LLM_ALLOWED_TOOLS after the split, LLM_TOOL_LOOP_MAX_STEPS
get_llm_config(allowed_names, max_steps) ==
    [max_steps |-> max_steps,
     allowed_tools |-> IF allowed_names = {} THEN RegistryTools ELSE allowed_names]

\* variant: the payload's max_steps is held to the configured maximum
StepBudgetClamped(payload_max_steps, configured) ==
    LET max_steps == IF payload_max_steps /= Null THEN Get(payload_max_steps)
                     ELSE configured
        capped == IF max_steps > configured THEN configured ELSE max_steps
    IN  IF capped < 1 THEN 1 ELSE capped

\* max_steps of run_job: the payload's when it has the key, else the configured
StepBudget(payload_max_steps, configured) ==
    LET max_steps == IF payload_max_steps /= Null THEN Get(payload_max_steps)
                     ELSE configured
    IN  IF max_steps < 1 THEN 1 ELSE max_steps

\* tools_to_use of run_llm_tool_loop
ToolsToUse(tools_requested, allowed) ==
    LET tools_to_use == IF tools_requested /= {} THEN {t \in tools_requested : t \in allowed}
                        ELSE allowed
    IN  IF tools_to_use = {} THEN allowed ELSE tools_to_use

\* tools_list of run_job
ToolsList(tools, allowed_tools) ==
    IF tools = Null \/ Get(tools) = <<>> THEN allowed_tools ELSE Range(Get(tools))

ParseOk(args) == [exc |-> "", args |-> args]
ParseRaises(exc) == [exc |-> exc]

\* variant: a missing argument string is read as no arguments
parse_tool_args_lenient(arguments) ==
    IF arguments = Null \/ arguments = Some("") THEN ParseOk(JDict(CapsNone))
    ELSE IF JsonLoads(Get(arguments)) = JDecodeError THEN ParseRaises("ValueError")
    ELSE ParseOk(JsonLoads(Get(arguments)))

\* parse_tool_args(arguments): None has no strip
parse_tool_args(arguments) ==
    IF arguments = Null THEN ParseRaises("AttributeError")
    ELSE IF Get(arguments) = "" THEN ParseOk(JDict(CapsNone))
    ELSE IF JsonLoads(Get(arguments)) = JDecodeError THEN ParseRaises("ValueError")
    ELSE ParseOk(JsonLoads(Get(arguments)))

\* how a call of dispatch ends: whether a handler of the bridge ran, and the
\* string returned or the text of the exception raised
Dispatched(invoked, raised, text) == [invoked |-> invoked, raised |-> raised, text |-> text]

\* allowed is not None and name not in allowed
NotAllowed(name, allowed) == name \notin allowed

\* dispatch(name, args, repo_context, runner_bridge=...) without repo_context,
\* the handler ending as o
dispatch(name, args, allowed, o) ==
    IF NotAllowed(name, allowed) THEN Dispatched(FALSE, TRUE, "tool not allowed")
    ELSE IF args.t /= "dict" THEN Dispatched(FALSE, TRUE, "object has no attribute 'get'")
    ELSE IF name \in {"repo_list", "plan_echo"} THEN Dispatched(TRUE, o.raised, o.text)
    ELSE IF name \in {"repo_status", "repo_last_commit", "repo_grep", "repo_readfile"}
    THEN Dispatched(FALSE, TRUE, "repo required")
    ELSE IF name = "approve_echo" THEN Dispatched(FALSE, TRUE, "plan_id required")
    ELSE Dispatched(FALSE, TRUE, "unknown tool")

\* the texts a handler returns, by name
Texts == {"out", "lon", "long", "wid", "wide", "eur", "euro", "fit"}

\* s.encode("utf-8"): the text as a run of one-byte characters followed by
\* characters of the byte widths in tail
Utf8(text) ==
    CASE text = "out" -> [ascii |-> 3, tail |-> <<>>]
      [] text = "lon" -> [ascii |-> TOOL_OUTPUT_MAX_BYTES, tail |-> <<>>]
      [] text = "long" -> [ascii |-> TOOL_OUTPUT_MAX_BYTES + 1, tail |-> <<>>]
      [] text = "wid" -> [ascii |-> TOOL_OUTPUT_MAX_BYTES - 1, tail |-> <<>>]
      [] text = "wide" -> [ascii |-> TOOL_OUTPUT_MAX_BYTES - 1, tail |-> <<2>>]
      [] text = "eur" -> [ascii |-> TOOL_OUTPUT_MAX_BYTES - 2, tail |-> <<>>]
      [] text = "euro" -> [ascii |-> TOOL_OUTPUT_MAX_BYTES - 2, tail |-> <<3, 1>>]
      [] text = "fit" -> [ascii |-> TOOL_OUTPUT_MAX_BYTES - 2, tail |-> <<2>>]
      [] OTHER -> [ascii |-> 4, tail |-> <<>>]

RECURSIVE SumSeq(_)
SumSeq(widths) == IF widths = <<>> THEN 0 ELSE Head(widths) + SumSeq(Tail(widths))

\* len(s.encode("utf-8"))
ByteLen(text) == Utf8(text).ascii + SumSeq(Utf8(text).tail)

\* len(s)
CharLen(text) == Utf8(text).ascii + Len(Utf8(text).tail)

\* the characters that lie whole in the first room bytes of widths
RECURSIVE WholeChars(_, _)
WholeChars(widths, room) ==
    IF widths = <<>> \/ Head(widths) > room THEN <<>>
    ELSE <<Head(widths)>> \o WholeChars(Tail(widths), room - Head(widths))

\* encoded[:max_bytes].decode("utf-8", errors="ignore"): a character cut by
\* the slice is left out
DecodeIgnore(encoded, max_bytes) ==
    IF encoded.ascii >= max_bytes THEN [ascii |-> max_bytes, tail |-> <<>>]
    ELSE [ascii |-> encoded.ascii,
          tail |-> WholeChars(encoded.tail, max_bytes - encoded.ascii)]

\* s[:max_chars]
CharSlice(encoded, max_chars) ==
    IF encoded.ascii >= max_chars THEN [ascii |-> max_chars, tail |-> <<>>]
    ELSE [ascii |-> encoded.ascii,
          tail |-> SubSeq(encoded.tail, 1,
                          IF Len(encoded.tail) < max_chars - encoded.ascii
                          THEN Len(encoded.tail) ELSE max_chars - encoded.ascii)]

\* the text of an encoded form
TextOf(encoded) == CHOOSE t \in Texts : Utf8(t) = encoded

\* variant: the limit counts characters
truncate_for_audit_chars(text) ==
    IF CharLen(text) <= TOOL_OUTPUT_MAX_BYTES THEN [text |-> text, was_truncated |-> FALSE]
    ELSE [text |-> TextOf(CharSlice(Utf8(text), TOOL_OUTPUT_MAX_BYTES)),
          was_truncated |-> TRUE]

\* _truncate_for_audit(s)
truncate_for_audit(text) ==
    IF ByteLen(text) <= TOOL_OUTPUT_MAX_BYTES THEN [text |-> text, was_truncated |-> FALSE]
    ELSE [text |-> TextOf(DecodeIgnore(Utf8(text), TOOL_OUTPUT_MAX_BYTES)),
          was_truncated |-> TRUE]

\* what a tool's handler can do
ToolOutcomes == {Returned("out"), Returned("long"), Raised("boom"), Raised("")}

ToolCallKinds ==
    {[name |-> "repo_list", arguments |-> Some("{}")],
     [name |-> "repo_list", arguments |-> Some("{")],
     [name |-> "repo_list", arguments |-> Some("[]")],
     [name |-> "plan_echo", arguments |-> Some("")],
     [name |-> "bogus", arguments |-> Some("{}")],
     [name |-> "bogus", arguments |-> Null]}

\* the tool_calls of a response: each call has the id the model gave it
ToolCallLists ==
    {[i \in DOMAIN l |-> [id |-> i, name |-> l[i].name, arguments |-> l[i].arguments]] :
        l \in UNION {[1..n -> ToolCallKinds] : n \in 1..MaxToolCalls}}

\* what chat_with_tools returns: content is None or stripped text, tool_calls
\* is None or a list that is not empty
ChatResponses ==
    [content : {Null, Some(""), Some("answer")},
     tool_calls : {Null} \cup {Some(l) : l \in ToolCallLists}]

LlmPayloads ==
    [tools : {Null, Some(<<>>), Some(<<"repo_list">>), Some(<<"plan_echo">>)},
     max_steps : {Null, Some(0), Some(MaxSteps)}]

LlmConfigs ==
    {get_llm_config(a, ConfiguredSteps) : a \in {{}, {"repo_list"}, {"ghost"}}}

\* the return of run_llm_tool_loop: the envelope
Envelope(l, final, safety) ==
    [l EXCEPT !.pc = "returned", !.final = Some(final), !.safety = safety, !.pending = <<>>]

\* variant: an empty answer without tool calls leaves final_text unset
NoResponseUnset(content) == IF content /= Null /\ Get(content) /= "" THEN content ELSE Null

\* final_text = content or "(no response)"
NoResponse(content) ==
    IF content /= Null /\ Get(content) /= "" THEN content ELSE Some("(no response)")

\* the code after the while loop: final_text is None when no break set it
LoopReturn(l, final_text) ==
    IF final_text = Null
    THEN Envelope(l, "Max tool steps reached without final answer.",
                  [l.safety EXCEPT !.max_steps_reached = Some(TRUE)])
    ELSE Envelope(l, Get(final_text), l.safety)

\* run_job on llm_task, from the tools of the payload to the first test of
\* the while loop of run_llm_tool_loop
LlmTask(payload, config) ==
    /\ llm.pc = "idle"
    /\ LET tools_list == ToolsList(payload.tools, config.allowed_tools)
           allowed_set == config.allowed_tools
           max_steps == StepBudget(payload.max_steps, config.max_steps)
           tools_schema == get_tools_schema(ToolsToUse(tools_list, allowed_set))
           entered == [NoLoop EXCEPT !.payload = Some(payload), !.config = Some(config),
                                     !.tools_requested = tools_list,
                                     !.allowed = allowed_set, !.max_steps = max_steps,
                                     !.schema = tools_schema]
       IN  llm' = IF ~(tools_list \subseteq allowed_set)
                  THEN [NoLoop EXCEPT !.pc = "raised", !.payload = Some(payload),
                                      !.config = Some(config),
                                      !.exc = Some("ValueError")]
                  ELSE IF tools_schema = {}
                  THEN Envelope(entered, "No tools available or configured.",
                                [NoSafety EXCEPT !.reason = Some("no_tools")])
                  ELSE [entered EXCEPT !.pc = "loop"]
    /\ UNCHANGED <<clock, jobs, lock, txn, pc, loc, resp, probe, env, runner, worker>>

\* variant: a response without tool calls ends the loop only through its content
NoToolCallsNever(tc_list) == FALSE

\* not tc_list
NoToolCalls(tc_list) == tc_list = Null \/ Get(tc_list) = <<>>

\* one pass of the while loop up to the for loop: step += 1, the call of
\* chat_with_tools, and the two breaks with the return that follows them
LlmCall(response) ==
    /\ llm.pc = "loop"
    /\ llm.step < llm.max_steps
    /\ LET content == response.content
           tc_list == response.tool_calls
           called == [llm EXCEPT !.step = @ + 1, !.calls = @ + 1, !.content = content]
           truthy == content /= Null /\ Get(content) /= ""
       IN  llm' = IF truthy /\ NoToolCalls(tc_list)
                  THEN LoopReturn(called, content)
                  ELSE IF NoToolCalls(tc_list)
                  THEN LoopReturn(called, NoResponse(content))
                  ELSE LET calls_made == IF tc_list = Null THEN <<>> ELSE Get(tc_list)
                       IN  [called EXCEPT
                               !.pc = IF calls_made = <<>> THEN "loop" ELSE "tools",
                               !.pending = calls_made,
                               \* the next call assigns content before it is read again
                               !.content = Null,
                               !.messages =
                                   Append(@, [role |-> "assistant",
                                              tool_call_ids |->
                                                  [i \in DOMAIN calls_made |->
                                                      calls_made[i].id],
                                              tool_call_names |->
                                                  [i \in DOMAIN calls_made |->
                                                      calls_made[i].name]])]
    /\ UNCHANGED <<clock, jobs, lock, txn, pc, loc, resp, probe, env, runner, worker>>

\* chat_with_tools raises: the endpoint is unreachable or answers an error,
\* and nothing between the call and main catches it
LlmCallRaises ==
    /\ llm.pc = "loop"
    /\ llm.step < llm.max_steps
    /\ llm' = [llm EXCEPT !.step = @ + 1, !.calls = @ + 1, !.pc = "raised",
                          !.exc = Some("APIError")]
    /\ UNCHANGED <<clock, jobs, lock, txn, pc, loc, resp, probe, env, runner, worker>>

\* one pass of the for loop over tc_list, the tool's handler ending as o
ToolCall(o) ==
    /\ llm.pc = "tools"
    /\ llm.pending /= <<>>
    /\ LET tc == Head(llm.pending)
           parsed == parse_tool_args(tc.arguments)
           next == [llm EXCEPT !.pending = Tail(@),
                               !.pc = IF Tail(llm.pending) = <<>> THEN "loop" ELSE "tools"]
           audit(l, status, text) ==
               [l EXCEPT !.tool_calls_audit =
                             Append(@, [name |-> tc.name, status |-> status,
                                        truncated_output |-> text]),
                         \* content is text, after "Error: " when error
                         !.messages = Append(@, [role |-> "tool", tool_call_id |-> tc.id,
                                                 error |-> status = "error",
                                                 content |-> text])]
       IN  IF parsed.exc = "ValueError"
           THEN llm' = audit(next, "error", "invalid tool arguments JSON")
           ELSE IF parsed.exc /= ""
           THEN llm' = [llm EXCEPT !.pc = "raised", !.exc = Some(parsed.exc)]
           ELSE LET d == dispatch(tc.name, parsed.args, llm.allowed, o)
                    ran == IF d.invoked
                           THEN [next EXCEPT !.handlers = Append(@, tc.name)]
                           ELSE next
                    t == truncate_for_audit(d.text)
                    counted == IF t.was_truncated
                               THEN [ran EXCEPT !.safety.truncations =
                                         IF @ = Null THEN Some(1) ELSE Some(Get(@) + 1)]
                               ELSE ran
                IN  IF d.raised
                    THEN llm' = audit(ran, "error", ErrMsg(d.text))
                    ELSE llm' = audit([counted EXCEPT !.results = Append(@, d.text)],
                                      "ok", t.text)
    /\ UNCHANGED <<clock, jobs, lock, txn, pc, loc, resp, probe, env, runner, worker>>

\* the while test fails: final_text is None, and the return
LoopExit ==
    /\ llm.pc = "loop"
    /\ ~(llm.step < llm.max_steps)
    /\ llm' = LoopReturn(llm, Null)
    /\ UNCHANGED <<clock, jobs, lock, txn, pc, loc, resp, probe, env, runner, worker>>

\* run_job has returned the envelope or raised: the worker is free for the next job
LlmDone ==
    /\ llm.pc \in {"returned", "raised"}
    /\ llm' = NoLoop
    /\ UNCHANGED <<clock, jobs, lock, txn, pc, loc, resp, probe, env, runner, worker>>

\* llm_task jobs against a model that answers from responses and handlers
\* that end as one of outcomes
NextLlmOf(responses, outcomes) ==
    \/ \E payload \in LlmPayloads, config \in LlmConfigs : LlmTask(payload, config)
    \/ \E response \in responses : LlmCall(response)
    \/ LlmCallRaises
    \/ \E o \in outcomes : ToolCall(o)
    \/ LoopExit
    \/ LlmDone

NextLlm == NextLlmOf(ChatResponses, ToolOutcomes)

\* handler outputs around the limit of TOOL_OUTPUT_MAX_BYTES: below it, of
\* exactly that many bytes, above it, and with a character of several bytes
\* across or just before the limit
AuditOutcomes ==
    {Returned(t) : t \in {"out", "lon", "long", "wide", "euro", "fit"}} \cup {Raised("boom")}

\* responses whose tool calls all reach a handler
AuditResponses ==
    {r \in ChatResponses :
        r.tool_calls /= Null =>
            /\ r.content = Null
            /\ \A i \in DOMAIN Get(r.tool_calls) :
                   /\ Get(r.tool_calls)[i].name \in {"repo_list", "plan_echo"}
                   /\ Get(r.tool_calls)[i].arguments \in {Some("{}"), Some("")}}

NextAudit == NextLlmOf(AuditResponses, AuditOutcomes)

\* SpecAudit: the llm_task jobs of SpecLlm with handler outputs around the
\* truncation limit
SpecAudit == Init /\ [][NextAudit]_vars

(***************************************************************************)
(* SpecLlm: llm_task jobs one after the other, on every payload and        *)
(* configuration of the lists above, against a model that answers          *)
(* anything.  The openai client has a timeout and a handler returns or     *)
(* raises, so no step of the loop waits forever.                           *)
(***************************************************************************)
SpecLlm == Init /\ [][NextLlm]_vars /\ WF_vars(NextLlm)

(***************************************************************************)
(* repo_readfile (src/runner/runner.py, _repo_readfile and run_job).  The  *)
(* file is the sequence of its lines, line i being the number i.           *)
(***************************************************************************)
RUNNER_MAX_LINES == 3

\* lines[lo:hi] of Python, for 0 <= lo
PySlice(lines, lo, hi) ==
    LET h == IF hi < Len(lines) THEN hi ELSE Len(lines)
    IN  IF h <= lo THEN <<>> ELSE [i \in 1..(h - lo) |-> lines[lo + i]]

Max2(a, b) == IF a > b THEN a ELSE b
Min2(a, b) == IF a < b THEN a ELSE b

\* how a call of _repo_readfile ends, and whether it has opened the file;
\* start and end are those of the data it returns, 0 when it raises
Read(raised, text, opened, content_lines) ==
    [raised |-> raised, text |-> text, opened |-> opened, content_lines |-> content_lines,
     start |-> 0, end |-> 0]

\* variant: a range of exactly RUNNER_MAX_LINES lines is refused too
RangeExceedsInclusive(start, end) == (end - start + 1) >= RUNNER_MAX_LINES

\* (end - start + 1) > RUNNER_MAX_LINES
RangeExceeds(start, end) == (end - start + 1) > RUNNER_MAX_LINES

\* _repo_readfile(repo_name, path, start, end): path_ok says the path is
\* relative and the repo is a git repo of the allowlist, file_ok that the
\* path is a file inside the repo of at most RUNNER_MAX_FILE_BYTES
repo_readfile(path_ok, file_ok, lines, start, end) ==
    IF ~path_ok THEN Read(TRUE, "path must be relative and not contain ..", FALSE, <<>>)
    ELSE IF start < 1 THEN Read(TRUE, "start must be >= 1", FALSE, <<>>)
    ELSE IF end < start THEN Read(TRUE, "end must be >= start", FALSE, <<>>)
    ELSE IF RangeExceeds(start, end)
    THEN Read(TRUE, "line range exceeds RUNNER_MAX_LINES", FALSE, <<>>)
    ELSE IF ~file_ok THEN Read(TRUE, "not a file or not found", FALSE, <<>>)
    ELSE LET max_line == Len(lines)
             start1 == Max2(1, Min2(start, max_line))
             end0 == Min2(end, max_line)
             end1 == IF end0 < start1 THEN start1 ELSE end0
             content_lines == PySlice(lines, start1 - 1, end1)
         IN  [Read(FALSE, "content", TRUE, PySlice(content_lines, 0, RUNNER_MAX_LINES))
                 EXCEPT !.start = start1, !.end = end1]

\* a repo_readfile job from run_job to main's terminal POST: the payload names
\* a repo and a path and has the integers start and end
ReadfileProbe(path_ok, file_ok, lines, start, end) ==
    LET o == repo_readfile(path_ok, file_ok, lines, start, end)
    IN  [kind |-> "repo_readfile", path_ok |-> path_ok, file_ok |-> file_ok,
         lines |-> lines, start |-> start, end |-> end, outcome |-> o,
         post |-> IF o.raised THEN [method |-> "fail", body |-> ErrMsg(o.text)]
                  ELSE [method |-> "result", body |-> o.text]]

Readfile(path_ok, file_ok, lines, start, end) ==
    /\ probe' = ReadfileProbe(path_ok, file_ok, lines, start, end)
    /\ UNCHANGED <<clock, jobs, lock, txn, pc, loc, resp, env, runner, worker, llm>>

NextReadfile ==
    \E path_ok \in BOOLEAN, file_ok \in BOOLEAN, n \in 0..MaxFileLines,
       start \in (1 - LinesBelow)..MaxLine, end \in (1 - LinesBelow)..MaxLine :
        Readfile(path_ok, file_ok, [i \in 1..n |-> i], start, end)

(***************************************************************************)
(* SpecReadfile: repo_readfile jobs on files of up to MaxFileLines lines   *)
(* with every start and end of 1 - LinesBelow .. MaxLine.                  *)
(***************************************************************************)
SpecReadfile == Init /\ [][NextReadfile]_vars

(***************************************************************************)
(* The repository subsystem's path handling (src/runner/runner.py,         *)
(* resolve_repo_path and _repo_readfile).  A path is absolute or relative  *)
(* and has components; a canonical location is the sequence of names from  *)
(* the root.  The worker's file tree is the one below.                     *)
(***************************************************************************)
PathOf(abs, comps) == [abs |-> abs, comps |-> comps]

Dir == [kind |-> "dir"]
File(lines) == [kind |-> "file", lines |-> lines]
Link(target) == [kind |-> "link", target |-> target]

\* the file tree: /base is RUNNER_REPOS_BASE, /base/r a git repo with a file,
\* a directory, a link to a directory outside and a link to a file outside;
\* /base/esc a link that leaves the base; /out a git repo outside the base
Tree ==
    (<<"base">> :> Dir) @@ (<<"base", "r">> :> Dir) @@ (<<"base", "r", ".git">> :> Dir)
    @@ (<<"base", "r", "f">> :> File(<<1, 2, 3, 4>>))
    @@ (<<"base", "r", "sub">> :> Dir)
    @@ (<<"base", "r", "sub", "f">> :> File(<<5, 6>>))
    @@ (<<"base", "r", "lnk">> :> Link(PathOf(TRUE, <<"out">>)))
    @@ (<<"base", "r", "sl">> :> Link(PathOf(FALSE, <<"..", "..", "out", "s">>)))
    @@ (<<"base", "esc">> :> Link(PathOf(TRUE, <<"out">>)))
    @@ (<<"out">> :> Dir) @@ (<<"out", ".git">> :> Dir)
    @@ (<<"out", "s">> :> File(<<7, 8>>))

RUNNER_REPOS_BASE == PathOf(TRUE, <<"base">>)

\* load_allowlist(): name -> path-spec
Allowlist ==
    ("r" :> PathOf(FALSE, <<"r">>)) @@ ("esc" :> PathOf(FALSE, <<"esc">>))
    @@ ("abs" :> PathOf(TRUE, <<"out">>)) @@ ("up" :> PathOf(FALSE, <<"..", "out">>))
    @@ ("rabs" :> PathOf(TRUE, <<"base", "r">>))

RECURSIVE Norm(_, _, _)
\* os.path.normpath on the components: "." dropped, ".." taken with the
\* component before it
Norm(done, rest, abs) ==
    IF rest = <<>> THEN done
    ELSE LET c == Head(rest)
         IN  IF c = "." THEN Norm(done, Tail(rest), abs)
             ELSE IF c = ".."
             THEN IF done /= <<>> /\ done[Len(done)] /= ".."
                  THEN Norm(SubSeq(done, 1, Len(done) - 1), Tail(rest), abs)
                  ELSE IF abs THEN Norm(done, Tail(rest), abs)
                  ELSE Norm(Append(done, c), Tail(rest), abs)
             ELSE Norm(Append(done, c), Tail(rest), abs)

normpath(path) == PathOf(path.abs, Norm(<<>>, path.comps, path.abs))

\* os.path.join(a, b)
join(a, b) == IF b.abs THEN b ELSE PathOf(a.abs, a.comps \o b.comps)

RECURSIVE Walk(_, _)
\* the location reached from the location cur along the components rest,
\* links followed as the file system follows them
Walk(cur, rest) ==
    IF rest = <<>> THEN cur
    ELSE LET c == Head(rest)
             new == Append(cur, c)
         IN  IF c = "." THEN Walk(cur, Tail(rest))
             ELSE IF c = ".."
             THEN Walk(IF cur = <<>> THEN cur ELSE SubSeq(cur, 1, Len(cur) - 1), Tail(rest))
             ELSE IF new \in DOMAIN Tree /\ Tree[new].kind = "link"
             THEN Walk(IF Tree[new].target.abs THEN <<>> ELSE cur,
                       Tree[new].target.comps \o Tail(rest))
             ELSE Walk(new, Tail(rest))

\* os.path.realpath of an absolute path
realpath(path) == Walk(<<>>, path.comps)

\* x == root or x.startswith(root + os.sep), on canonical locations
Under(root, x) ==
    \/ x = root
    \/ Len(x) > Len(root) /\ SubSeq(x, 1, Len(root)) = root

isdir(path) == realpath(path) \in DOMAIN Tree /\ Tree[realpath(path)].kind = "dir"
isfile(place) == place \in DOMAIN Tree /\ Tree[place].kind = "file"

Resolved(place) == [raised |-> FALSE, text |-> "", loc |-> place]
Refused(text) == [raised |-> TRUE, text |-> text, loc |-> <<>>]

\* resolve_repo_path(name)
resolve_repo_path(name) ==
    IF name \notin DOMAIN Allowlist THEN Refused("repo not allowlisted")
    ELSE LET value == Allowlist[name]
             base_real == realpath(RUNNER_REPOS_BASE)
             resolved == IF value.abs THEN realpath(value)
                         ELSE realpath(normpath(join(RUNNER_REPOS_BASE, value)))
         IN  IF ~Under(base_real, resolved)
             THEN Refused("repo path outside RUNNER_REPOS_BASE")
             ELSE Resolved(resolved)

\* the checks of _repo_readfile on repo_name and path, in the code's order,
\* for a range that is accepted: the file to open, or the error
readfile_checks(repo_name, path) ==
    IF path.abs \/ ".." \in Range(normpath(path).comps)
    THEN Refused("path must be relative and not contain ..")
    ELSE LET repo == resolve_repo_path(repo_name)
         IN  IF repo.raised THEN repo
             ELSE IF ~isdir(PathOf(TRUE, Append(repo.loc, ".git")))
             THEN Refused("not a git repo")
             ELSE LET abs_path == normpath(join(PathOf(TRUE, repo.loc), path))
                      real_abs == realpath(abs_path)
                      real_repo == realpath(PathOf(TRUE, repo.loc))
                  IN  IF ~Under(real_repo, real_abs) THEN Refused("path outside repo")
                      ELSE IF ~isfile(real_abs) THEN Refused("not a file or not found")
                      ELSE Resolved(real_abs)

PathNames == {"..", "sub", "f", "lnk", "sl", "s"}
RepoNames == {"r", "esc", "abs", "up", "rabs", "nope"}
Paths == [abs : BOOLEAN, comps : UNION {[1..n -> PathNames] : n \in 1..MaxPathLen}]

\* a repo_readfile call on repo_name and path for the lines 1..RUNNER_MAX_LINES
PathProbe(repo_name, path) ==
    LET c == readfile_checks(repo_name, path)
        lines == IF c.raised THEN <<>> ELSE Tree[c.loc].lines
    IN  [kind |-> "path", repo_name |-> repo_name, path |-> path,
         repo |-> resolve_repo_path(repo_name), checks |-> c,
         outcome |-> repo_readfile(~(c.raised /\ c.text \in
                                        {"path must be relative and not contain ..",
                                         "repo not allowlisted",
                                         "repo path outside RUNNER_REPOS_BASE",
                                         "not a git repo"}),
                                   ~c.raised, lines, 1, RUNNER_MAX_LINES)]

\* run_job takes a repo_readfile job
ReadPath(repo_name, path) ==
    /\ probe = NoProbe
    /\ probe' = PathProbe(repo_name, path)
    /\ UNCHANGED <<clock, jobs, lock, txn, pc, loc, resp, env, runner, worker, llm>>

\* run_job has returned or raised: the worker is free for the next job
PathDone ==
    /\ probe /= NoProbe
    /\ probe' = NoProbe
    /\ UNCHANGED <<clock, jobs, lock, txn, pc, loc, resp, env, runner, worker, llm>>

NextPath ==
    \/ \E repo_name \in RepoNames, path \in Paths : ReadPath(repo_name, path)
    \/ PathDone

(***************************************************************************)
(* SpecPath: repo_readfile on every repo name and every path of up to      *)
(* MaxPathLen components of the lists above.                               *)
(***************************************************************************)
SpecPath == Init /\ [][NextPath]_vars

(***************************************************************************)
(* SpecMatch: the capability matching applied to every text of the lists   *)
(* below, a requires column against an X-Worker-Caps header.               *)
(***************************************************************************)
RequiresTexts ==
    {Null, Some(""), Some(" "), Some("{"), Some("llm"), Some("{}"),
     Some("{\"caps\":null}"), Some("{\"caps\":[]}"), Some("{\"caps\":[\"\"]}"),
     Some("{\"caps\":[null]}"), Some("{\"caps\":5}"), Some("{\"caps\":0}"),
     Some("{\"caps\":[\"llm\"]}"), Some("{\"caps\":[\"llm\",\"repo\"]}"),
     Some("{\"caps\":\"ab\"}"),
     Some("[]"), Some("[\"llm\"]"), Some("5"), Some("null"), Some("\"llm\"")}

WorkerCapsTexts ==
    {Null, Some(""), Some(" "), Some("llm"), Some("llm,repo"), Some(" llm, ,repo "),
     Some("[]"), Some("[\"llm\"]"), Some("[\"llm\",\"repo\"]"), Some("[\"llm\""),
     Some("[\"\"]"), Some("[null,\"llm\"]")}

\* next_job's use of the matching: the header parsed, the row's requires matched
MatchProbe(requires, header) ==
    [requires |-> requires, header |-> header,
     worker_caps |-> parse_worker_caps(header),
     required |-> job_required_caps(requires),
     matches |-> job_matches_worker(requires, parse_worker_caps(header))]

Match(requires, header) ==
    /\ probe' = MatchProbe(requires, header)
    /\ UNCHANGED <<clock, jobs, lock, txn, pc, loc, resp, env, runner, worker, llm>>

NextMatch == \E r \in RequiresTexts, h \in WorkerCapsTexts : Match(r, h)

SpecMatch == Init /\ [][NextMatch]_vars

(***************************************************************************)
(* The worker and the broker together (src/runner/runner.py main,          *)
(* src/broker/app.py).  The worker's requests and the bot's are served by  *)
(* handler thread 1, one after the other; between the end of a handler and *)
(* Return the response is on its way to the client.                        *)
(***************************************************************************)
\* the commands of the jobs the bot creates
SysCommands == {"ping", "nope", "approve_echo"}

\* headers of main: X-Worker-Token and X-Worker-Id
SysWorkerToken == Some("wt")
SysWorkerId == Some("A")

\* what main makes of the response r of GET /jobs/next: raise_for_status,
\* then data.get("job") with its id, command and payload
PolledAnswer(r) ==
    IF r.code /= 200 THEN PollError
    ELSE IF r.job = Null THEN NoJob
    ELSE [id |-> Get(r.job).id, command |-> Get(r.job).command,
          payload |-> Get(r.job).payload]

\* main sends GET /jobs/next
SysPoll ==
    /\ worker.pc = "poll"
    /\ pc[1] = "idle"
    /\ route_next_job(1, SysWorkerToken, SysWorkerId, Null)

\* main reads the broker's answer to its GET
SysPollAnswer ==
    /\ worker.pc = "poll"
    /\ pc[1] = "done"
    /\ resp[1].op = "next"
    /\ MainPoll(PolledAnswer(resp[1]))

\* the GET ends in a RequestException: the broker was not reached
SysPollFails ==
    /\ pc[1] = "idle"
    /\ MainPoll(PollError)

SysSleep ==
    /\ pc[1] = "idle"
    /\ MainSleep

\* run_job on the claimed job
SysRun ==
    /\ worker.pc = "run"
    /\ \E o \in run_job(Get(worker.job).command, Get(worker.job).payload) : MainRunJob(o)

\* requests.post of _post_with_retry reaches the broker
SysPostSend ==
    /\ runner.pc = "post"
    /\ pc[1] = "idle"
    /\ LET post == worker.posts[Len(worker.posts)]
       IN  IF post.method = "result"
           THEN route_finish_job(1, SysWorkerToken, SysWorkerId, post.id, post.body)
           ELSE route_fail_job(1, SysWorkerToken, SysWorkerId, post.id, post.body)

\* requests.post returns the broker's response
SysPostAnswer ==
    /\ pc[1] = "done"
    /\ resp[1].op \in {"result", "fail"}
    /\ PostAttempt(Response(resp[1].code))

\* requests.post raises: the request did not reach the broker, or the
\* response did not reach the worker
SysPostLost ==
    /\ \/ pc[1] = "idle"
       \/ pc[1] = "done" /\ resp[1].op \in {"result", "fail"}
    /\ PostAttempt(RequestException)

SysPostSleep ==
    /\ pc[1] = "idle"
    /\ PostSleep

\* the response has left the broker and its reader has gone on
SysReturn ==
    /\ resp[1].op = "next" => worker.pc /= "poll"
    /\ resp[1].op \in {"result", "fail"} => runner.pc /= "post"
    /\ Return(1)

NextSystem ==
    \/ Tick(SysMaxTime)
    \/ \E m \in SysCommands : route_create_job(1, Some("bt"), m, "x", Null)
    \/ CreateInsert(1, SysMaxJobs)
    \/ SysPoll
    \/ NextBegin(1)
    \/ NextRequeue(1)
    \/ NextSelect(1)
    \/ NextClaim(1)
    \/ NextCommit(1)
    \/ SysPollAnswer
    \/ SysPollFails
    \/ SysSleep
    \/ SysRun
    \/ MainPost
    \/ SysPostSend
    \/ FinishNow(1)
    \/ FinishUpdate(1)
    \/ FailNow(1)
    \/ FailUpdate(1)
    \/ SysPostAnswer
    \/ SysPostLost
    \/ SysPostSleep
    \/ MainResume
    \/ SysReturn

(***************************************************************************)
(* SpecSystem: a bot that creates jobs, the broker, and one worker that    *)
(* polls, runs what it claims and posts the outcome.                       *)
(***************************************************************************)
SpecSystem == Init /\ [][NextSystem]_vars

(***************************************************************************)
(* Properties.  Vocabulary: the step in which p's /jobs/next ends, what it *)
(* answered, and the order of the queue.                                   *)
(***************************************************************************)
\* the step in which p's GET /jobs/next ends (COMMIT or rollback, and the answer)
NextAnswers(p) ==
    /\ pc[p] \in {"next_select", "next_claim", "next_commit"}
    /\ pc'[p] = "done"

\* p's handler has answered {job: <record>} in this step
AnswersJob(p) == NextAnswers(p) /\ resp'[p].code = 200 /\ resp'[p].job /= Null

\* p's handler has answered {job: null} in this step
AnswersNull(p) == NextAnswers(p) /\ resp'[p].code = 200 /\ resp'[p].job = Null

\* the lease of a running row has expired at time now
LeaseExpired(row, now) ==
    row.status = "running" /\ row.lease_until /= Null /\ Get(row.lease_until) < now

\* row k is ahead of row i in the queue
Ahead(tbl, k, i) ==
    \/ tbl[k].created_at < tbl[i].created_at
    \/ tbl[k].created_at = tbl[i].created_at /\ k < i

\* the queued rows ahead of row i
QueuedAhead(tbl, i) ==
    {k \in DOMAIN tbl : k /= i /\ tbl[k].status = "queued" /\ Ahead(tbl, k, i)}

(***************************************************************************)
(* C1.  A /jobs/next request is answered with job j only from a committed  *)
(* state in which j was queued, or running with a lease that had expired   *)
(* at the request's time (its own requeue step then ran before its claim): *)
(* of two concurrent requests that saw the same queued job at most one     *)
(* moves it to running.                                                    *)
(***************************************************************************)
C1_ClaimedOnce ==
    [][\A p \in Procs :
         AnswersJob(p) =>
            LET j == Get(resp'[p].job).id
            IN  /\ j \in DOMAIN jobs
                /\ \/ jobs[j].status = "queued"
                   \/ LeaseExpired(jobs[j], loc[p].now)]_vars

\* two requests are in flight on the same queued job: one has selected it
\* inside its transaction, the other waits to begin
C1_Witness ==
    \E p \in Procs, q \in Procs :
        /\ p /= q
        /\ pc[p] = "next_commit"
        /\ pc[q] = "next_begin"
        /\ loc[p].job_id \in DOMAIN jobs
        /\ jobs[loc[p].job_id].status = "queued"
        /\ Cardinality({i \in DOMAIN jobs : jobs[i].status = "queued"}) = 1

(***************************************************************************)
(* C2.  Once a job's status is done or failed it never changes again.      *)
(***************************************************************************)
C2_TerminalIsFinal ==
    [][\A j \in DOMAIN jobs :
         jobs[j].status \in {"done", "failed"} => jobs'[j].status = jobs[j].status]_vars

(***************************************************************************)
(* C4.  A /jobs/next request whose time is now leaves every running job    *)
(* with lease_until >= now as it is, and does not answer with it.          *)
(***************************************************************************)
C4_LiveLeaseKept ==
    [][\A p \in Procs : \A j \in DOMAIN jobs :
         ( /\ NextAnswers(p)
           /\ jobs[j].status = "running"
           /\ jobs[j].lease_until /= Null
           /\ Get(jobs[j].lease_until) >= loc[p].now )
         => /\ jobs'[j] = jobs[j]
            /\ ~(AnswersJob(p) /\ Get(resp'[p].job).id = j)]_vars

\* a request has run its requeue step at the very second a lease ends
C4_Witness ==
    \E p \in Procs : \E j \in DOMAIN jobs :
        /\ pc[p] = "next_select"
        /\ jobs[j].status = "running"
        /\ jobs[j].lease_until = Some(loc[p].now)
        /\ txn[p][j] = jobs[j]

(***************************************************************************)
(* C5.  A job goes from running to queued only in the step that ends a     *)
(* /jobs/next request; and a result or fail POST that ends while its job   *)
(* is running (its lease expired or not) is answered 200 and settles it.   *)
(***************************************************************************)
C5_RequeueOnlyInNext ==
    [][/\ \A j \in DOMAIN jobs :
            (jobs[j].status = "running" /\ jobs'[j].status = "queued")
            => \E p \in Procs : NextAnswers(p)
       /\ \A p \in Procs :
            ( /\ pc[p] /= "done" /\ pc'[p] = "done"
              /\ resp'[p].op \in {"result", "fail"}
              /\ resp'[p].id \in DOMAIN jobs
              /\ jobs[resp'[p].id].status = "running" )
            => /\ resp'[p].code = 200
               /\ jobs'[resp'[p].id].status = (IF resp'[p].op = "result" THEN "done" ELSE "failed")
       /\ \A p \in Procs : \A j \in DOMAIN jobs :
            ( /\ pc[p] = "idle" /\ pc'[p] = "done"
              /\ resp'[p].op \in {"result", "fail"}
              /\ resp'[p].id = j )
            => jobs[j].status /= "running"]_vars

\* a result POST is about to settle a job whose lease has expired
C5_Witness ==
    \E p \in Procs :
        /\ pc[p] = "finish_update"
        /\ LeaseExpired(jobs[loc[p].job_id], loc[p].now)

(***************************************************************************)
(* C3.  Every /jobs/next request, at its time now, resets every running    *)
(* job with lease_until < now to queued with started_at, lease_until,      *)
(* worker_id, finished_at, result and error cleared; and when such a job   *)
(* is the oldest queued job that matches the caller, the caller is         *)
(* answered with it: running, under the caller's worker id, started at     *)
(* now, leased until now + LEASE_SECONDS.                                  *)
(***************************************************************************)
C3_Reset(row) ==
    [row EXCEPT !.status = "queued", !.started_at = Null, !.lease_until = Null,
                !.worker_id = Null, !.finished_at = Null, !.result = Null,
                !.error = Null]

C3_RequeuedAndSelectable ==
    [][\A p \in Procs :
         NextAnswers(p) =>
            LET now == loc[p].now
                R == [i \in DOMAIN jobs |->
                        IF LeaseExpired(jobs[i], now) THEN C3_Reset(jobs[i]) ELSE jobs[i]]
                matching(i) ==
                    /\ R[i].status = "queued"
                    /\ job_matches_worker(R[i].requires, loc[p].worker_caps) = "True"
                oldest(i) ==
                    /\ matching(i)
                    /\ \A k \in DOMAIN R : (matching(k) /\ k /= i) => Ahead(R, i, k)
                claimed(i) ==
                    [R[i] EXCEPT !.status = "running", !.started_at = Some(now),
                                 !.lease_until = Some(now + LEASE_SECONDS),
                                 !.worker_id = loc[p].worker_id]
            IN  \A j \in DOMAIN jobs :
                    LeaseExpired(jobs[j], now) =>
                        IF oldest(j)
                        THEN /\ AnswersJob(p)
                             /\ Get(resp'[p].job) = claimed(j)
                             /\ jobs'[j] = claimed(j)
                        ELSE jobs'[j] = R[j]]_vars

(***************************************************************************)
(* C6.  A job answered by /jobs/next whose requires yields a non-empty     *)
(* set R is answered only to a worker whose offered set contains R; and    *)
(* /jobs/next does not answer {job: null} to any worker, whatever it       *)
(* offers, while the oldest queued job has no requires.                    *)
(***************************************************************************)
C6_RequiredWithinOffered ==
    [][\A p \in Procs :
         /\ AnswersJob(p) =>
               LET required == job_required_caps(Get(resp'[p].job).requires)
               IN  (required.tag = "set" /\ required.caps /= {})
                   => \A c \in required.caps : c \in loc[p].worker_caps
         /\ (pc[p] = "next_select" /\ pc'[p] /= "next_select") =>
               \A i \in DOMAIN txn[p] :
                   ( /\ txn[p][i].status = "queued"
                     /\ txn[p][i].requires = Null
                     /\ QueuedAhead(txn[p], i) = {} )
                   => (pc'[p] = "next_claim" /\ loc'[p].job_id = i)]_vars

\* a worker offering one of the two capabilities an older queued job
\* requires has selected a later job
C6_Witness ==
    \E p \in Procs : \E k \in DOMAIN txn[p] :
        /\ pc[p] = "next_commit"
        /\ loc[p].worker_caps = {"llm"}
        /\ txn[p][k].status = "queued"
        /\ job_required_caps(txn[p][k].requires).caps = {"llm", "repo"}
        /\ k < loc[p].job_id

(***************************************************************************)
(* C7.  A job whose requires is absent, empty, not parseable as JSON,      *)
(* JSON that is not an object, an object without caps, or an object whose  *)
(* caps list is empty matches a worker with any capability set.            *)
(***************************************************************************)
C7_NoUsableCaps(requires) ==
    IF requires = Null THEN TRUE
    ELSE IF Strip(Get(requires)) = "" THEN TRUE
    ELSE LET obj == JsonLoads(Strip(Get(requires)))
         IN  IF obj.t /= "dict" THEN TRUE
             ELSE IF obj.caps.k = "None" THEN TRUE
             ELSE obj.caps.k = "list" /\ obj.caps.items = <<>>

C7_NoUsableCapsMatchesAny ==
    (probe /= NoProbe /\ C7_NoUsableCaps(probe.requires)) => probe.matches = "True"

(***************************************************************************)
(* C8.  Every /jobs/next request is answered 200 with {job: null} or with  *)
(* {job: <record with status running>}.                                    *)
(***************************************************************************)
C8_NextAlwaysAnswers ==
    \A p \in Procs :
        resp[p].op = "next" =>
            /\ resp[p].code = 200
            /\ (resp[p].job = Null \/ Get(resp[p].job).status = "running")

(***************************************************************************)
(* C9.  When /jobs/next answers with job J, no job that is queued after    *)
(* the requeue step and matches the worker was created strictly before J.  *)
(***************************************************************************)
C9_FifoAmongMatching ==
    [][\A p \in Procs :
         (pc[p] = "next_commit" /\ AnswersJob(p)) =>
            \A k \in DOMAIN txn[p] :
                ( /\ txn[p][k].status = "queued"
                  /\ job_matches_worker(txn[p][k].requires, loc[p].worker_caps) = "True" )
                => ~(txn[p][k].created_at < Get(resp'[p].job).created_at)]_vars

\* the claimed job was requeued in this very request and is older than
\* another queued job that matches the worker
C9_Witness ==
    \E p \in Procs : \E k \in DOMAIN txn[p] :
        /\ pc[p] = "next_commit"
        /\ jobs[loc[p].job_id].status = "running"
        /\ txn[p][k].status = "queued"
        /\ job_matches_worker(txn[p][k].requires, loc[p].worker_caps) = "True"
        /\ txn[p][k].created_at > txn[p][loc[p].job_id].created_at

Tables == {jobs} \cup {txn[p] : p \in Procs}

(***************************************************************************)
(* C11.  In every reachable state a job with status queued has started_at, *)
(* lease_until, worker_id, result, error and finished_at all absent, just  *)
(* created or requeued after a lease expiry.                               *)
(***************************************************************************)
C11_QueuedFieldsAbsent ==
    \A tbl \in Tables : \A j \in DOMAIN tbl :
        tbl[j].status = "queued" =>
            /\ tbl[j].started_at = Null
            /\ tbl[j].lease_until = Null
            /\ tbl[j].worker_id = Null
            /\ tbl[j].result = Null
            /\ tbl[j].error = Null
            /\ tbl[j].finished_at = Null

\* a transaction has requeued a job that a worker with an id was running
C11_Witness ==
    \E p \in Procs : \E j \in DOMAIN txn[p] :
        /\ txn[p][j].status = "queued"
        /\ jobs[j].status = "running"
        /\ jobs[j].worker_id /= Null

(***************************************************************************)
(* C12.  In every reachable state a job with status running has started_at *)
(* and lease_until present and result, error and finished_at absent; the   *)
(* claim writes as worker_id the claimant's X-Worker-Id when that is not   *)
(* blank, and leaves it absent otherwise.                                  *)
(***************************************************************************)
C12_RunningFields ==
    [][/\ \A tbl \in Tables' : \A j \in DOMAIN tbl :
             tbl[j].status = "running" =>
                /\ tbl[j].started_at /= Null
                /\ tbl[j].lease_until /= Null
                /\ tbl[j].worker_id \notin {Some(""), Some(" ")}
                /\ tbl[j].result = Null
                /\ tbl[j].error = Null
                /\ tbl[j].finished_at = Null
       /\ \A p \in Procs :
             (pc[p] = "next_claim" /\ pc'[p] = "next_commit") =>
                LET sent == loc[p].x_worker_id
                    row == txn'[p][loc[p].job_id]
                IN  /\ row.status = "running"
                    /\ row.worker_id =
                         IF sent = Null \/ Get(sent) \in {"", " "} THEN Null ELSE sent]_vars

\* a claim made with an empty X-Worker-Id header
C12_Witness ==
    \E p \in Procs :
        /\ pc[p] = "next_commit"
        /\ loc[p].x_worker_id = Some("")
        /\ txn[p][loc[p].job_id].status = "running"
        /\ txn[p][loc[p].job_id].worker_id = Null

(***************************************************************************)
(* C13.  In every reachable state a job with status done has finished_at   *)
(* present, lease_until absent and result set (the empty string allowed);  *)
(* a job with status failed has finished_at present, lease_until absent    *)
(* and a non-empty error, which is 'unknown' when the posted error was     *)
(* empty or blank.                                                         *)
(***************************************************************************)
C13_TerminalFields ==
    [][/\ \A tbl \in Tables' : \A j \in DOMAIN tbl :
             /\ tbl[j].status = "done" =>
                   /\ tbl[j].finished_at /= Null
                   /\ tbl[j].lease_until = Null
                   /\ tbl[j].result /= Null
             /\ tbl[j].status = "failed" =>
                   /\ tbl[j].finished_at /= Null
                   /\ tbl[j].lease_until = Null
                   /\ tbl[j].error /= Null
                   /\ tbl[j].error \notin {Some(""), Some(" ")}
       /\ \A p \in Procs :
             (pc[p] = "fail_update" /\ pc'[p] = "done" /\ Get(loc[p].body) \in {"", " "})
             => jobs'[loc[p].job_id].error = Some("unknown")]_vars

\* a fail POST with an empty or blank error has been stored
C13_Witness ==
    \E p \in Procs :
        /\ pc[p] = "done"
        /\ resp[p].op = "fail" /\ resp[p].code = 200
        /\ jobs[resp[p].id].status = "failed"
        /\ jobs[resp[p].id].error = Some("unknown")

(***************************************************************************)
(* C14.  A result POST that finds the job done or failed is answered 200   *)
(* and leaves the table unchanged, whatever result it carries: on done     *)
(* with {ok, status: done}, the same as the answer of the POST that        *)
(* settled the job; on failed with status failed and the note that the     *)
(* result was ignored.  Such a POST never goes on to the UPDATE.           *)
(***************************************************************************)
C14_ResultIdempotent ==
    [][\A p \in Procs :
         /\ ( /\ pc[p] = "idle" /\ pc'[p] = "done" /\ resp'[p].op = "result"
              /\ resp'[p].id \in DOMAIN jobs
              /\ jobs[resp'[p].id].status \in {"done", "failed"} )
            => /\ jobs' = jobs
               /\ resp'[p].code = 200
               /\ resp'[p].status = jobs[resp'[p].id].status
               /\ resp'[p].note = IF jobs[resp'[p].id].status = "done" THEN ""
                                  ELSE "already failed; result ignored"
         /\ (pc[p] = "idle" /\ pc'[p] = "finish_now")
            => jobs[loc'[p].job_id].status \notin {"done", "failed"}
         /\ (pc[p] = "finish_update" /\ pc'[p] = "done")
            => resp'[p] = [op |-> "result", id |-> loc[p].job_id, code |-> 200,
                           status |-> "done", note |-> ""]]_vars

\* a result POST has been answered with the note for a failed job
C14_Witness ==
    \E p \in Procs :
        /\ pc[p] = "done"
        /\ resp[p].op = "result" /\ resp[p].code = 200
        /\ resp[p].note = "already failed; result ignored"
        /\ jobs[resp[p].id].status = "failed"
        /\ jobs[resp[p].id].result = Null

(***************************************************************************)
(* C15.  A fail POST that finds the job done or failed is answered 200 and *)
(* leaves the table unchanged: on done with status done and a note (the    *)
(* stored result is kept), on failed with {ok, status: failed} (the first  *)
(* stored error is kept, whatever the new error text).  Such a POST never  *)
(* goes on to the UPDATE.                                                  *)
(***************************************************************************)
C15_FailIdempotent ==
    [][\A p \in Procs :
         /\ ( /\ pc[p] = "idle" /\ pc'[p] = "done" /\ resp'[p].op = "fail"
              /\ resp'[p].id \in DOMAIN jobs
              /\ jobs[resp'[p].id].status \in {"done", "failed"} )
            => /\ jobs' = jobs
               /\ resp'[p].code = 200
               /\ resp'[p].status = jobs[resp'[p].id].status
               /\ resp'[p].note = IF jobs[resp'[p].id].status = "failed" THEN ""
                                  ELSE "already done; fail ignored"
         /\ (pc[p] = "idle" /\ pc'[p] = "fail_now")
            => jobs[loc'[p].job_id].status \notin {"done", "failed"}]_vars

\* a fail POST has been answered with the note for a done job
C15_Witness ==
    \E p \in Procs :
        /\ pc[p] = "done"
        /\ resp[p].op = "fail" /\ resp[p].code = 200
        /\ resp[p].note = "already done; fail ignored"
        /\ jobs[resp[p].id].status = "done"
        /\ jobs[resp[p].id].error = Null

(***************************************************************************)
(* C16.  A result POST that finds the job queued is answered 400 and       *)
(* leaves the table unchanged; and a job's status becomes done only from   *)
(* running.                                                                *)
(***************************************************************************)
C16_DoneOnlyFromRunning ==
    [][/\ \A p \in Procs :
             ( /\ pc[p] = "idle" /\ pc'[p] = "done" /\ resp'[p].op = "result"
               /\ resp'[p].id \in DOMAIN jobs
               /\ jobs[resp'[p].id].status = "queued" )
             => (jobs' = jobs /\ resp'[p].code = 400)
       /\ \A j \in DOMAIN jobs :
             (jobs'[j].status = "done" /\ jobs[j].status /= "done")
             => jobs[j].status = "running"]_vars

(***************************************************************************)
(* C17.  The clock never goes back, and every job has created_at <=        *)
(* started_at when started_at is present, started_at <= finished_at when   *)
(* both are present, and lease_until = started_at + LEASE_SECONDS while it *)
(* is running.                                                             *)
(***************************************************************************)
C17_TimesOrdered ==
    \A j \in DOMAIN jobs :
        /\ jobs[j].started_at /= Null => jobs[j].created_at <= Get(jobs[j].started_at)
        /\ (jobs[j].started_at /= Null /\ jobs[j].finished_at /= Null)
           => Get(jobs[j].started_at) <= Get(jobs[j].finished_at)
        /\ jobs[j].status = "running"
           => jobs[j].lease_until = Some(Get(jobs[j].started_at) + LEASE_SECONDS)

(***************************************************************************)
(* C19.  A job's status becomes failed only in the UPDATE of a fail POST   *)
(* for that job: no /jobs/next step (requeue included), no result POST and *)
(* no tick of the clock moves a job to failed.                             *)
(***************************************************************************)
C19_FailedOnlyByFailPost ==
    [][\A j \in DOMAIN jobs :
         (jobs'[j].status = "failed" /\ jobs[j].status /= "failed")
         => \E p \in Procs :
               /\ pc[p] = "fail_update" /\ pc'[p] = "done"
               /\ loc[p].job_id = j
               /\ resp'[p].op = "fail" /\ resp'[p].id = j]_vars

\* a claim is about to commit that has requeued the job after its lease
\* expired and handed it out again
C19_Witness ==
    \E p \in Procs :
        /\ pc[p] = "next_commit"
        /\ LeaseExpired(jobs[loc[p].job_id], loc[p].now)
        /\ txn[p][loc[p].job_id].status = "running"
        /\ txn[p][loc[p].job_id].started_at = Some(loc[p].now)

(***************************************************************************)
(* C18.  A request to an authenticated endpoint is answered 500 when the   *)
(* endpoint's configured secret is empty, whatever token it presents, and  *)
(* 401 when the secret is configured and the presented token is missing    *)
(* or differs from it; in both cases the handler is not entered and the    *)
(* jobs table stays as it is.  A handler is entered only with the          *)
(* configured, non-empty secret presented.                                 *)
(***************************************************************************)
C18_SecretOf(op) == IF op \in {"create", "get"} THEN env.BOT_TOKEN ELSE env.WORKER_TOKEN

C18_Entered(p) ==
    CASE pc'[p] = "create_insert" -> "create"
      [] pc'[p] = "next_begin" -> "next"
      [] pc'[p] = "finish_now" -> "result"
      [] pc'[p] = "fail_now" -> "fail"
      [] OTHER -> resp'[p].op

C18_AuthFailures ==
    [][\A p \in Procs :
         (pc[p] = "idle" /\ pc'[p] /= "idle") =>
            LET secret == C18_SecretOf(C18_Entered(p))
                rejected == pc'[p] = "done" /\ "presented" \in DOMAIN resp'[p]
            IN  /\ secret = "" => (rejected /\ resp'[p].code = 500)
                /\ rejected =>
                      /\ jobs' = jobs /\ txn' = txn /\ lock' = lock
                      /\ resp'[p].code = IF secret = "" THEN 500 ELSE 401
                      /\ secret /= "" => resp'[p].presented /= Some(secret)
                /\ \A t \in PresentedTokens :
                      (secret /= "" /\ (t = Null \/ t /= Some(secret)))
                      => require_token(secret, t) = 401]_vars

\* a worker presenting the bot's token has been answered 401 while a job
\* it could have claimed waits
C18_Witness ==
    \E p \in Procs :
        /\ pc[p] = "done"
        /\ resp[p].op = "next" /\ resp[p].code = 401
        /\ resp[p].presented = Some("bt")
        /\ \E j \in DOMAIN jobs : jobs[j].status = "queued"

(***************************************************************************)
(* C20.  A call of _post_with_retry makes at most three attempts and       *)
(* always returns: True at the first 200, False at the first 4xx without   *)
(* another attempt, False when the third attempt fails; an attempt that    *)
(* ended in a 5xx or a transport error and was not the third is followed   *)
(* by the sleep of the schedule for that attempt and another attempt.      *)
(***************************************************************************)
C20_Retryable(r) == r.exc \/ r.status >= 500

C20_RetryShape ==
    LET n == Len(runner.seen)
    IN  /\ n <= 3
        /\ \A i \in 1..(n - 1) :
              ~(~runner.seen[i].exc /\ runner.seen[i].status = 200)
              /\ ~(~runner.seen[i].exc /\ runner.seen[i].status \in 400..499)
        /\ runner.pc \in {"sleep", "returned"} =>
              /\ n >= 1
              /\ runner.slept = SubSeq(<<5, 10, 20>>, 1, n - 1)
        /\ runner.pc = "post" => runner.slept = SubSeq(<<5, 10, 20>>, 1, n)
        /\ runner.pc = "sleep" => n < 3
        /\ runner.pc = "returned" =>
              LET last == runner.seen[n]
              IN  /\ runner.ok = Some(~last.exc /\ last.status = 200)
                  /\ C20_Retryable(last) => n = 3

C20_RetryTerminates ==
    /\ []C20_RetryShape
    /\ (runner.pc = "post") ~> (runner.pc = "returned")

\* the third attempt has failed after two sleeps and the call returned False
C20_Witness ==
    /\ runner.pc = "returned"
    /\ Len(runner.seen) = 3
    /\ runner.slept = <<5, 10>>
    /\ runner.ok = Some(FALSE)
    /\ runner.seen[3] = RequestException

\* the terminal POST main owes for the job it holds: the endpoint and the body
C21_Owed ==
    LET o == Get(worker.outcome)
    IN  [method |-> IF o.raised THEN "fail" ELSE "result",
         id |-> Get(worker.job).id,
         body |-> IF o.raised /\ o.text = "" THEN "unknown" ELSE o.text]

\* C21: for every job main claims, _post_with_retry is called exactly once, on
\* result with the string the handler returned or on fail with the text of
\* the exception it raised ("unknown" for an empty text), never on both, and
\* whatever that call returns main is back at the GET of /jobs/next
C21_OneTerminalPost ==
    /\ [](worker.pc \in {"run", "call"} => worker.posts = <<>>)
    /\ []((worker.pc = "posting" \/ (worker.pc \in {"poll", "sleep"} /\ worker.job # Null))
            => /\ worker.posts = <<C21_Owed>>
               /\ (worker.pc = "posting" => runner.method = C21_Owed.method))
    /\ (worker.pc = "run" ~> (worker.pc = "posting" /\ runner.pc = "post"))
    /\ (worker.pc = "posting" ~> worker.pc = "poll")

\* a handler raised with an empty text, the fail POST was given up, main polls again
C21_Witness ==
    /\ worker.pc = "poll"
    /\ worker.posts = <<[method |-> "fail", id |-> 1, body |-> "unknown"]>>
    /\ worker.ok = Some(FALSE)

\* C22: a job whose worker never delivers a terminal POST does not stay
\* running once a worker polls after the lease ran out: the first
\* /jobs/next whose time now is past lease_until leaves the job queued, or
\* claimed anew by that very request (the re-claim the polling leads to)
C22_AbandonedIsRequeued ==
    [][\A p \in Procs :
         NextAnswers(p) =>
            \A j \in DOMAIN jobs :
                LeaseExpired(jobs[j], loc[p].now) =>
                    \/ jobs'[j].status = "queued"
                    \/ /\ AnswersJob(p)
                       /\ Get(resp'[p].job).id = j
                       /\ jobs'[j].status = "running"
                       /\ jobs'[j].lease_until = Some(loc[p].now + LEASE_SECONDS)]_vars

\* the model turns of the present run that came back with tool calls: each
\* left one assistant message
C23_ToolTurns ==
    Cardinality({i \in DOMAIN llm.messages : llm.messages[i].role = "assistant"})

\* C23: run_llm_tool_loop calls the model at most max_steps times and then
\* returns an envelope, whatever the model answers and however the tool
\* calls end: the only exceptions that end an llm_task are run_job's own,
\* raised before the loop, and the endpoint's
C23_BoundedAndReturns ==
    /\ [](llm.calls <= llm.max_steps)
    /\ [](llm.pc = "raised" => llm.exc \in {Some("ValueError"), Some("APIError")})
    /\ (llm.pc = "loop" ~> llm.pc \in {"returned", "raised"})

\* C24: the step budget of an llm_task is at least 1 and at most the
\* configured LLM_TOOL_LOOP_MAX_STEPS
C24_BudgetWithinConfigured ==
    llm.pc \in {"loop", "tools", "returned"} =>
        /\ 1 <= llm.max_steps
        /\ llm.max_steps <= Get(llm.config).max_steps

\* C25: an envelope has the final "Max tool steps reached without final
\* answer." and safety.max_steps_reached = true exactly when max_steps model
\* calls were made and each came back with tool calls; every other envelope
\* has no max_steps_reached key
C25_MaxStepsReached ==
    llm.pc = "returned" =>
        LET exhausted == llm.calls = llm.max_steps /\ C23_ToolTurns = llm.calls
        IN  /\ exhausted <=>
                  /\ llm.final = Some("Max tool steps reached without final answer.")
                  /\ llm.safety.max_steps_reached = Some(TRUE)
            /\ ~exhausted => llm.safety.max_steps_reached = Null

\* two model calls, both with tool calls, and the envelope says so
C25_Witness ==
    /\ llm.pc = "returned"
    /\ llm.calls = 2
    /\ llm.max_steps = 2
    /\ llm.safety.max_steps_reached = Some(TRUE)
    /\ Len(llm.tool_calls_audit) >= 2

\* C26: every pass of the for loop over the tool calls leaves exactly one
\* audit entry and exactly one tool message with the call's id and goes on
\* with the next call or the next model turn; a call whose arguments are not
\* a JSON object, or whose handler raised, is recorded with status error
C26_ToolErrorRecorded ==
    [][llm.pc = "tools" =>
          LET tc == Head(llm.pending)
              n == Len(llm.tool_calls_audit)
              m == Len(llm.messages)
          IN  /\ llm'.pc \in {"tools", "loop"}
              /\ llm'.pending = Tail(llm.pending)
              /\ Len(llm'.tool_calls_audit) = n + 1
              /\ SubSeq(llm'.tool_calls_audit, 1, n) = llm.tool_calls_audit
              /\ llm'.tool_calls_audit[n + 1].name = tc.name
              /\ Len(llm'.messages) = m + 1
              /\ SubSeq(llm'.messages, 1, m) = llm.messages
              /\ llm'.messages[m + 1].role = "tool"
              /\ llm'.messages[m + 1].tool_call_id = tc.id
              /\ llm'.messages[m + 1].error = (llm'.tool_calls_audit[n + 1].status = "error")
              /\ tc.arguments \notin {Some("{}"), Some("")} =>
                    llm'.tool_calls_audit[n + 1].status = "error"
              /\ llm'.tool_calls_audit[n + 1].status = "ok" =>
                    /\ llm'.handlers = Append(llm.handlers, tc.name)
                    /\ llm'.tool_calls_audit[n + 1].truncated_output \in {"out", "lon"}]_vars

\* C27: a tool call whose name is outside the process allowlist runs no
\* handler and leaves an audit entry with status error for that call
C27_NotAllowedRejected ==
    [][(llm.pc = "tools" /\ Head(llm.pending).name \notin Get(llm.config).allowed_tools) =>
          LET n == Len(llm.tool_calls_audit)
          IN  /\ llm'.handlers = llm.handlers
              /\ Len(llm'.tool_calls_audit) = n + 1
              /\ SubSeq(llm'.tool_calls_audit, 1, n) = llm.tool_calls_audit
              /\ llm'.tool_calls_audit[n + 1].name = Head(llm.pending).name
              /\ llm'.tool_calls_audit[n + 1].status = "error"]_vars

\* C28: the schema served to the model holds exactly the registry tools
\* that are in the list the job asked for and in the process allowlist
C28_SchemaIsIntersection ==
    (llm.pc \in {"loop", "tools"} /\ Get(llm.payload).tools /= Null) =>
        llm.schema = {t \in RegistryTools :
                         /\ t \in Range(Get(Get(llm.payload).tools))
                         /\ t \in Get(llm.config).allowed_tools}

\* C29: an llm_task that reaches run_llm_tool_loop with no registry tool in
\* the allowlist makes no model call and runs no tool: it returns the final
\* "No tools available or configured." with an empty audit and the safety
\* {reason: no_tools}
C29_NoToolsFastPath ==
    (llm.pc /= "idle" /\ llm.exc = Null
        /\ Get(llm.config).allowed_tools \cap RegistryTools = {}) =>
        /\ llm.pc = "returned"
        /\ llm.calls = 0
        /\ llm.handlers = <<>>
        /\ llm.messages = <<>>
        /\ llm.final = Some("No tools available or configured.")
        /\ llm.tool_calls_audit = <<>>
        /\ llm.safety = [truncations |-> Null, max_steps_reached |-> Null,
                         reason |-> Some("no_tools")]

\* the allowlist names no registry tool and the job has returned its envelope
C29_Witness ==
    /\ llm.pc = "returned"
    /\ Get(llm.config).allowed_tools = {"ghost"}
    /\ llm.safety.reason = Some("no_tools")

\* C30: repo_readfile accepts a line range exactly when 1 <= start <= end
\* and end - start + 1 <= RUNNER_MAX_LINES; any other range raises before
\* the file is opened, and the job ends with main's POST of fail
C30_RangeAccepted ==
    ("kind" \in DOMAIN probe /\ probe.kind = "repo_readfile" /\ probe.path_ok) =>
        LET good == /\ 1 <= probe.start
                    /\ probe.start <= probe.end
                    /\ probe.end - probe.start + 1 <= RUNNER_MAX_LINES
            o == probe.outcome
        IN  /\ good /\ probe.file_ok =>
                  /\ ~o.raised
                  /\ o.opened
                  /\ probe.post.method = "result"
            /\ good /\ ~probe.file_ok => o.raised /\ o.text = "not a file or not found"
            /\ ~good =>
                  /\ o.raised
                  /\ o.text \in {"start must be >= 1", "end must be >= start",
                                 "line range exceeds RUNNER_MAX_LINES"}
                  /\ ~o.opened
                  /\ o.content_lines = <<>>
                  /\ probe.post = [method |-> "fail", body |-> o.text]

\* a range one line longer than RUNNER_MAX_LINES on a file that has the
\* lines is refused: the file is not opened and main posts fail
C30_Witness ==
    /\ "kind" \in DOMAIN probe
    /\ probe.kind = "repo_readfile"
    /\ probe.path_ok /\ probe.file_ok
    /\ probe.start = 1
    /\ probe.end = RUNNER_MAX_LINES + 1
    /\ Len(probe.lines) > RUNNER_MAX_LINES
    /\ probe.outcome.raised
    /\ ~probe.outcome.opened
    /\ probe.post.method = "fail"

\* C31: repo_readfile returns content only of a file whose canonical
\* location is inside the canonical repo root, a repo name resolves only to
\* a canonical location inside the canonical RUNNER_REPOS_BASE, and an
\* absolute path, a path with a parent-directory component and a path that
\* leaves the repo through a link each end in an error
C31_Contained ==
    ("kind" \in DOMAIN probe /\ probe.kind = "path") =>
        LET base == Walk(<<>>, <<"base">>)
            inside(root, x) == Len(x) >= Len(root) /\ SubSeq(x, 1, Len(root)) = root
        IN  /\ ~probe.repo.raised => inside(base, probe.repo.loc)
            /\ ~probe.outcome.raised =>
                  /\ ~probe.repo.raised
                  /\ inside(probe.repo.loc, probe.checks.loc)
                  /\ probe.outcome.content_lines = SubSeq(Tree[probe.checks.loc].lines, 1, 2)
                        \o (IF Len(Tree[probe.checks.loc].lines) >= 3
                            THEN <<Tree[probe.checks.loc].lines[3]>> ELSE <<>>)
            /\ (\/ probe.path.abs
                \/ ".." \in Range(probe.path.comps)
                \/ /\ ~probe.repo.raised
                   /\ ~inside(probe.repo.loc, Walk(probe.repo.loc, probe.path.comps)))
               => probe.outcome.raised

\* the names of the tool calls the model has requested in the present run,
\* turn after turn: each turn left them in its assistant message
RECURSIVE C32_Requested(_)
C32_Requested(messages) ==
    IF messages = <<>> THEN <<>>
    ELSE LET m == Head(messages)
         IN  (IF m.role = "assistant" THEN m.tool_call_names ELSE <<>>)
                 \o C32_Requested(Tail(messages))

\* C32: a model response without tool calls ends run_llm_tool_loop: the
\* envelope's final is the response's content, or "(no response)" when the
\* content is empty; its tool_calls has one entry for each tool call
\* requested in the turns before, in the order of the requests; and no model
\* call and no handler follows the return
C32_StopsAtFinalAnswer ==
    [][/\ (/\ llm.pc = "loop"
           /\ llm'.calls = llm.calls + 1
           /\ llm'.pc /= "raised"
           /\ llm'.pending = <<>>)
          => /\ llm'.pc = "returned"
             /\ llm'.final = IF llm'.content \in {Null, Some("")}
                             THEN Some("(no response)") ELSE llm'.content
             /\ llm'.safety = llm.safety
             /\ llm'.handlers = llm.handlers
             /\ llm'.tool_calls_audit = llm.tool_calls_audit
             /\ Len(llm'.tool_calls_audit) = Len(C32_Requested(llm'.messages))
             /\ \A i \in DOMAIN llm'.tool_calls_audit :
                    llm'.tool_calls_audit[i].name = C32_Requested(llm'.messages)[i]
       /\ llm.pc = "returned" => llm' \in {llm, NoLoop}]_vars

\* a run of two model calls: two tool calls in the first response, one of
\* them refused, and an empty answer without tool calls in the second
C32_Witness ==
    /\ llm.pc = "returned"
    /\ llm.calls = 2
    /\ llm.content = Some("")
    /\ llm.final = Some("(no response)")
    /\ llm.safety.max_steps_reached = Null
    /\ Len(llm.tool_calls_audit) = 2
    /\ llm.tool_calls_audit[1].status = "ok"
    /\ llm.tool_calls_audit[2].status = "error"
    /\ Len(llm.handlers) = 1

\* the entries of the audit list, and the tool messages, of the tool calls
\* whose dispatch returned
C33_OkEntries == SelectSeq(llm.tool_calls_audit, LAMBDA e : e.status = "ok")

C33_OkMessages == SelectSeq(llm.messages, LAMBDA m : m.role = "tool" /\ ~m.error)

\* C33: for each tool call whose dispatch returned, the output kept in the
\* audit entry and sent to the model in the tool message is the same text,
\* of at most TOOL_OUTPUT_MAX_BYTES bytes in UTF-8, and it is the handler's
\* output when that has at most that many bytes; safety.truncations is the
\* number of those calls whose output had more bytes, and is not set when
\* there is none
C33_OutputWithinLimit ==
    /\ Len(C33_OkEntries) = Len(llm.results)
    /\ Len(C33_OkMessages) = Len(llm.results)
    /\ \A i \in DOMAIN llm.results :
           /\ ByteLen(C33_OkEntries[i].truncated_output) <= TOOL_OUTPUT_MAX_BYTES
           /\ C33_OkMessages[i].content = C33_OkEntries[i].truncated_output
           /\ ByteLen(llm.results[i]) <= TOOL_OUTPUT_MAX_BYTES
                  => C33_OkEntries[i].truncated_output = llm.results[i]
    /\ LET cut == {i \in DOMAIN llm.results :
                      ByteLen(llm.results[i]) > TOOL_OUTPUT_MAX_BYTES}
       IN  llm.safety.truncations = IF cut = {} THEN Null ELSE Some(Cardinality(cut))

\* a returned run of three tool calls: an output of a byte over the limit in
\* one-byte characters, one whose two-byte character lies across the limit,
\* and one of exactly the limit
C33_Witness ==
    /\ llm.pc = "returned"
    /\ llm.results = <<"long", "wide", "fit">>
    /\ Len(llm.tool_calls_audit) = 3
    /\ llm.tool_calls_audit[1].truncated_output = "lon"
    /\ llm.tool_calls_audit[2].truncated_output = "wid"
    /\ ByteLen(llm.tool_calls_audit[2].truncated_output) = TOOL_OUTPUT_MAX_BYTES - 1
    /\ llm.tool_calls_audit[3].truncated_output = "fit"
    /\ llm.safety.truncations = Some(2)

\* C34: when repo_readfile accepts the range of a job on a file of n lines
\* it returns the lines i with start <= i <= min(end, n) and no other, in
\* order, and the start and end it reports are the requested start and
\* min(end, n): the numbers of the first and the last line returned when
\* there is one
C34_LinesOfRange ==
    ("kind" \in DOMAIN probe /\ probe.kind = "repo_readfile" /\ ~probe.outcome.raised) =>
        LET n == Len(probe.lines)
            last == IF probe.end < n THEN probe.end ELSE n
            o == probe.outcome
        IN  /\ o.content_lines =
                   IF last < probe.start THEN <<>>
                   ELSE [k \in 1..(last - probe.start + 1) |-> probe.lines[probe.start + k - 1]]
            /\ o.start = probe.start
            /\ o.end = last
            /\ o.content_lines /= <<>> =>
                   /\ o.content_lines[1] = probe.lines[o.start]
                   /\ o.content_lines[Len(o.content_lines)] = probe.lines[o.end]

\* p's /jobs/next commits its claim of job j in this step
C35_Claims(p, j) ==
    /\ pc[p] = "next_commit"
    /\ pc'[p] = "done"
    /\ loc[p].job_id = j

\* C35: a job that is running before and after a step keeps its worker_id,
\* unless the step commits a /jobs/next whose requeue UPDATE took the job
\* back (its lease had expired at the request's time) before claiming it
\* anew; and every claim, of a queued or of a requeued job, leaves as
\* worker_id the X-Worker-Id of its request (absent when that is blank)
C35_SingleClaimant ==
    [][\A j \in DOMAIN jobs :
          /\ (jobs[j].status = "running" /\ jobs'[j].status = "running") =>
                \/ /\ jobs'[j].worker_id = jobs[j].worker_id
                   /\ jobs'[j].started_at = jobs[j].started_at
                \/ \E p \in Procs :
                      /\ C35_Claims(p, j)
                      /\ LeaseExpired(jobs[j], loc[p].now)
          /\ (jobs[j].status /= "running" /\ jobs'[j].status = "running") =>
                /\ jobs[j].status = "queued"
                /\ \E p \in Procs : C35_Claims(p, j)
          /\ \A p \in Procs :
                C35_Claims(p, j) =>
                   /\ jobs'[j].status = "running"
                   /\ jobs'[j].worker_id =
                         IF loc[p].x_worker_id \in {Null, Some("")} THEN Null
                         ELSE loc[p].x_worker_id]_vars

\* worker B's /jobs/next is about to commit its claim of the job that is
\* still recorded as running for worker A, whose lease has expired
C35_Witness ==
    \E p \in Procs :
        /\ pc[p] = "next_commit"
        /\ loc[p].job_id = 1
        /\ jobs[1].status = "running"
        /\ jobs[1].worker_id = Some("A")
        /\ txn[p][1].status = "running"
        /\ txn[p][1].worker_id = Some("B")

\* C36: the UPDATE of a result or fail request moves a running job to done
\* or failed only when the request comes from the worker recorded in the
\* job's worker_id, the holder of the lease: the POST of a worker whose
\* lease has expired does not settle the run of the worker that has claimed
\* the job anew
C36_SettledByHolder ==
    [][\A p \in Procs :
          (pc[p] \in {"finish_update", "fail_update"} /\ pc'[p] = "done") =>
             LET j == loc[p].job_id
             IN  (jobs[j].status = "running" /\ jobs'[j].status \in {"done", "failed"}) =>
                    loc[p].x_worker_id = jobs[j].worker_id]_vars

\* the fields in which two versions of a row differ
C37_Changed(old, new) == {f \in DOMAIN old : old[f] /= new[f]}

\* the fields of a job that are set at creation
C37_Fixed == {"id", "created_at", "command", "payload", "requires"}

\* the fields each UPDATE names in its SET
C37_RequeueTargets ==
    {"status", "started_at", "lease_until", "finished_at", "result", "error", "worker_id"}
C37_ClaimTargets ==
    {"status", "started_at", "lease_until", "worker_id", "error", "result", "finished_at"}
C37_FinishTargets == {"status", "result", "finished_at", "lease_until"}
C37_FailTargets == {"status", "error", "finished_at", "lease_until"}

\* the place of row i in the rows of the SELECT, 0 when it is not among them
C37_Place(rows, i) ==
    IF i \in Range(rows) THEN CHOOSE n \in DOMAIN rows : rows[n] = i ELSE 0

\* the frame of a step that changes the committed table or a transaction
C37_Frame ==
    /\ \A j \in DOMAIN jobs :
          /\ j \in DOMAIN jobs'
          /\ C37_Changed(jobs[j], jobs'[j]) \cap C37_Fixed = {}
    /\ \A p \in Procs :
          LET j == loc[p].job_id
          IN  /\ (pc[p] = "next_begin" /\ pc'[p] = "next_requeue") => txn'[p] = jobs
              /\ (pc[p] = "next_requeue" /\ pc'[p] = "next_select") =>
                     /\ DOMAIN txn'[p] = DOMAIN txn[p]
                     /\ \A k \in DOMAIN txn[p] :
                            /\ C37_Changed(txn[p][k], txn'[p][k]) \subseteq C37_RequeueTargets
                            /\ ~LeaseExpired(txn[p][k], loc[p].now) =>
                                   txn'[p][k] = txn[p][k]
              /\ (pc[p] = "next_claim" /\ pc'[p] = "next_commit") =>
                     /\ DOMAIN txn'[p] = DOMAIN txn[p]
                     /\ \A k \in DOMAIN txn[p] :
                            /\ C37_Changed(txn[p][k], txn'[p][k]) \subseteq C37_ClaimTargets
                            /\ k /= j => txn'[p][k] = txn[p][k]
              /\ NextAnswers(p) => jobs' \in {jobs, txn[p]}
              /\ (pc[p] = "finish_update" /\ pc'[p] = "done") =>
                     \A k \in DOMAIN jobs :
                         /\ C37_Changed(jobs[k], jobs'[k]) \subseteq C37_FinishTargets
                         /\ k /= j => jobs'[k] = jobs[k]
              /\ (pc[p] = "fail_update" /\ pc'[p] = "done") =>
                     \A k \in DOMAIN jobs :
                         /\ C37_Changed(jobs[k], jobs'[k]) \subseteq C37_FailTargets
                         /\ k /= j => jobs'[k] = jobs[k]
              /\ (pc[p] = "create_insert" /\ pc'[p] = "done") =>
                     \A k \in DOMAIN jobs : jobs'[k] = jobs[k]
    /\ (\A p \in Procs :
           ~ \/ NextAnswers(p)
             \/ pc[p] \in {"create_insert", "finish_update", "fail_update"}
                /\ pc'[p] = "done")
       => jobs' = jobs

\* C37: no step removes a job or changes its id, created_at, command,
\* payload or requires, in the committed table or inside a transaction;
\* the requeue, claim, result and fail UPDATEs change only the fields of
\* their SET, only in the rows of their WHERE, and every other request
\* changes no row; and in the SELECT of /jobs/next a queued job, requeued
\* ones included, comes before every queued job created later
C37_FrameAndOrder ==
    [][/\ (jobs' = jobs /\ txn' = txn) \/ C37_Frame
       /\ \A p \in Procs :
             (pc[p] = "next_select" /\ pc'[p] /= "next_select") =>
                LET rows == SelectQueued(txn[p])
                IN  \A i, k \in DOMAIN txn[p] :
                       ( /\ txn[p][i].status = "queued"
                         /\ txn[p][i].created_at < txn[p][k].created_at
                         /\ k \in Range(rows) )
                       => /\ i \in Range(rows)
                          /\ C37_Place(rows, i) < C37_Place(rows, k)]_vars

\* a /jobs/next has requeued job 1, whose lease had expired, and picked it
\* ahead of job 2, which was created later and is queued: the row in the
\* transaction has the created_at, command and payload of its creation
C37_Witness ==
    \E p \in Procs :
        /\ pc[p] = "next_claim"
        /\ loc[p].job_id = 1
        /\ Len(jobs) = 2
        /\ jobs[1].status = "running"
        /\ txn[p][1].status = "queued"
        /\ txn[p][1].created_at = 0
        /\ txn[p][2].status = "queued"
        /\ txn[p][2].created_at > 0
        /\ C37_Changed(jobs[1], txn[p][1]) = {"status", "started_at", "lease_until", "worker_id"}

\* the tools list of the present llm_task's payload
C38_JobTools == Range(Get(Get(llm.payload).tools))

\* C38: in an llm_task whose payload has a tools list that is not empty,
\* every handler that runs is of a tool of that list; a tool call that
\* names a tool of the process allowlist that is not in the job's list runs
\* no handler and leaves an audit entry with status error for the call
C38_OnlyListedToolsRun ==
    [][(llm.pc = "tools" /\ Get(llm.payload).tools \notin {Null, Some(<<>>)}) =>
          LET n == Len(llm.tool_calls_audit)
              name == Head(llm.pending).name
          IN  /\ llm'.handlers /= llm.handlers => name \in C38_JobTools
              /\ (name \in llm.allowed /\ name \notin C38_JobTools) =>
                    /\ llm'.handlers = llm.handlers
                    /\ Len(llm'.tool_calls_audit) = n + 1
                    /\ llm'.tool_calls_audit[n + 1].name = name
                    /\ llm'.tool_calls_audit[n + 1].status = "error"]_vars

\* the commands run_job has a branch for
C39_Vocabulary ==
    {"ping", "capabilities", "plan_echo", "approve_echo", "repo_list", "repo_status",
     "repo_last_commit", "repo_grep", "repo_readfile", "llm_task"}

\* the worker holds a claimed job whose command run_job does not know
C39_HoldsUnknown == worker.job /= Null /\ Get(worker.job).command \notin C39_Vocabulary

\* C39: for a claimed job whose command run_job does not know, run_job
\* returns "unknown command: <command>" and main posts that text to the
\* result endpoint and nothing to the fail endpoint; when the broker answers
\* 200 the job is done with that text as result and without error, and no
\* such job is ever failed
C39_UnknownCommandIsDone ==
    /\ [](C39_HoldsUnknown =>
            LET text == "unknown command: nope"
            IN  /\ worker.outcome \in {Null, Some(Returned(text))}
                /\ \A i \in DOMAIN worker.posts :
                       worker.posts[i] =
                           [method |-> "result", id |-> Get(worker.job).id, body |-> text]
                /\ worker.pc = "posting" =>
                       worker.posts /= <<>> /\ runner.method = "result")
    /\ [](\A j \in DOMAIN jobs :
             jobs[j].command \notin C39_Vocabulary =>
                /\ jobs[j].status /= "failed"
                /\ jobs[j].error = Null
                /\ \A p \in Procs :
                       pc[p] \in {"fail_now", "fail_update"} => loc[p].job_id /= j)
    /\ [][(C39_HoldsUnknown /\ runner.pc = "post" /\ runner'.ok = Some(TRUE)) =>
             LET row == jobs[Get(worker.job).id]
             IN  /\ row.status = "done"
                 /\ row.result = Some("unknown command: nope")
                 /\ row.error = Null]_vars

\* the worker has claimed job 1, whose command it does not know, the broker
\* has answered its result POST with 200, and the job is done
C39_Witness ==
    /\ worker.pc = "poll"
    /\ C39_HoldsUnknown
    /\ worker.ok = Some(TRUE)
    /\ worker.posts = <<[method |-> "result", id |-> 1, body |-> "unknown command: nope"]>>
    /\ jobs[1].command = "nope"
    /\ jobs[1].status = "done"
    /\ jobs[1].result = Some("unknown command: nope")
    /\ jobs[1].error = Null

====
